---- MODULE Spec2Model ----
(***************************************************************************)
(* Model of the artifact resolution and schema-extraction pipeline of      *)
(* genvm-linter (src/linter/genvm_linter/validate).                        *)
(*                                                                         *)
(* Strings are sequences of one-character strings, so that slicing,        *)
(* prefix tests, replace and split are computed as Python computes them.   *)
(***************************************************************************)
EXTENDS Integers, Sequences, FiniteSets, TLC

VARIABLES
    call,       \* the pure helper last called, with its arguments (SpecPure)
    ret,        \* what that call returned or raised
    files,      \* cache directory: bundle path -> content of the file there
    latest_release,     \* release host: the tag /releases/latest redirects to
    pc,         \* per invocation: position in the code
    op,         \* per invocation: the entry point called, with its arguments
    outcome,    \* per invocation: what the entry point returned or raised
    dl,         \* per invocation: frame of download_artifacts
    dirs,       \* cache directory: component path -> the files in the directory
    er,         \* per invocation: frame of extract_runner
    vc,         \* per invocation: frame of validate_contract and load_sdk
    extracted,  \* history: the (bundle, type, hash) extractions that succeeded
    sys         \* per process: sys.path, sys.modules and os.environ of the interpreter

pureVars == <<call, ret>>
fsVars == <<files, dirs>>
netVars == <<latest_release>>
histVars == <<extracted>>
sysVars == <<sys>>
vars == <<call, ret, files, latest_release, pc, op, outcome, dl, dirs, er, vc, extracted, sys>>

(***************************************************************************)
(* Bounds of the model.                                                    *)
(***************************************************************************)
MaxHashLen == 3
MaxMembers == 3
MaxEntries == 2
MaxBreaks == 2
MaxSysPath == 4

(***************************************************************************)
(* String helpers (Python str semantics).                                  *)
(***************************************************************************)
Min(a, b) == IF a <= b THEN a ELSE b

\* s[lo:hi] of Python: 0-based, half-open, both ends clamped to the length.
Slice(s, lo, hi) == SubSeq(s, Min(lo, Len(s)) + 1, Min(hi, Len(s)))

\* s.startswith(p)
StartsWith(s, p) == Len(p) <= Len(s) /\ SubSeq(s, 1, Len(p)) = p

\* s.endswith(p)
EndsWith(s, p) == Len(p) <= Len(s) /\ SubSeq(s, Len(s) - Len(p) + 1, Len(s)) = p

\* s.replace(old, ""): every non-overlapping occurrence, left to right.
RECURSIVE RemoveAll(_, _)
RemoveAll(s, old) ==
    IF Len(s) < Len(old) \/ Len(old) = 0 THEN s
    ELSE IF StartsWith(s, old) THEN RemoveAll(Slice(s, Len(old), Len(s)), old)
    ELSE <<Head(s)>> \o RemoveAll(Tail(s), old)

\* s.split(sep) for a one-character separator: the list of the parts.
RECURSIVE Split(_, _)
Split(s, sep) ==
    IF \A i \in 1..Len(s) : s[i] # sep THEN <<s>>
    ELSE LET k == CHOOSE i \in 1..Len(s) :
                     s[i] = sep /\ \A j \in 1..(i - 1) : s[j] # sep
         IN <<SubSeq(s, 1, k - 1)>> \o Split(SubSeq(s, k + 1, Len(s)), sep)

\* The string literals of artifacts.py.
RunnersSlash == <<"r", "u", "n", "n", "e", "r", "s", "/">>
Slash == <<"/">>
DotTar == <<".", "t", "a", "r">>

\* The runner types named in sdk_loader.py.
PyGenlayer == <<"p", "y", "-", "g", "e", "n", "l", "a", "y", "e", "r">>
PyLibStd ==
    <<"p", "y", "-", "l", "i", "b", "-", "g", "e", "n", "l", "a", "y", "e", "r", "-", "s", "t", "d">>
PyLibProtobuf ==
    <<"p", "y", "-", "l", "i", "b", "-", "p", "r", "o", "t", "o", "b", "u", "f">>
PyLibEmbeddings ==
    <<"p", "y", "-", "l", "i", "b", "-", "g", "e", "n", "l", "a", "y", "e", "r", "-", "e", "m", "b", "e", "d", "d", "i", "n", "g", "s">>

\* Outcomes of a call: a value, None, or an exception.
Return(v) == [tag |-> "return", val |-> v]
ReturnNone == [tag |-> "none"]
Raise(e) == [tag |-> "raise", exc |-> e]
Pending == [tag |-> "pending"]

(***************************************************************************)
(* artifacts.py: hash_to_tar_path                                          *)
(***************************************************************************)
HashToTarPath_Prefix3(runner_type, hash_val) ==
    LET dir_prefix == Slice(hash_val, 0, 3)
        file_suffix == Slice(hash_val, 3, Len(hash_val))
    IN RunnersSlash \o runner_type \o Slash \o dir_prefix \o Slash
           \o file_suffix \o DotTar

HashToTarPath(runner_type, hash_val) ==
    LET dir_prefix == Slice(hash_val, 0, 2)
        file_suffix == Slice(hash_val, 2, Len(hash_val))
    IN RunnersSlash \o runner_type \o Slash \o dir_prefix \o Slash
           \o file_suffix \o DotTar

(***************************************************************************)
(* sdk_loader.py: parse_contract_header.  The text of a contract file is   *)
(* a sequence of tokens: the characters the code looks at (#, space,       *)
(* newline, quote, colon, brackets) one by one, and words, which are runs  *)
(* of other characters.                                                    *)
(***************************************************************************)
Quote == "\""
NL == "\n"
Whitespace == {" ", "\t", NL}

\* str.strip()
RECURSIVE LStrip(_)
LStrip(s) == IF s # <<>> /\ Head(s) \in Whitespace THEN LStrip(Tail(s)) ELSE s

RECURSIVE RStrip(_)
RStrip(s) ==
    IF s # <<>> /\ s[Len(s)] \in Whitespace THEN RStrip(SubSeq(s, 1, Len(s) - 1)) ELSE s

Strip(s) == RStrip(LStrip(s))

\* sep.join(parts)
RECURSIVE Join(_, _)
Join(parts, sep) ==
    IF parts = <<>> THEN <<>>
    ELSE IF Len(parts) = 1 THEN parts[1]
    ELSE parts[1] \o <<sep>> \o Join(Tail(parts), sep)

\* lines 33-38: the loop over content.split("\n") with its break.
RECURSIVE HeaderLines_NoBreak(_)
HeaderLines_NoBreak(lines) ==
    IF lines = <<>> THEN <<>>
    ELSE LET line == Head(lines)
         IN IF StartsWith(line, <<"#">>)
            THEN <<IF StartsWith(line, <<"#", " ">>) THEN Strip(Tail(line)) ELSE Tail(line)>>
                     \o HeaderLines_NoBreak(Tail(lines))
            ELSE HeaderLines_NoBreak(Tail(lines))

RECURSIVE HeaderLines(_)
HeaderLines(lines) ==
    IF lines = <<>> THEN <<>>
    ELSE LET line == Head(lines)
         IN IF StartsWith(line, <<"#">>)
            THEN <<IF StartsWith(line, <<"#", " ">>) THEN Strip(Tail(line)) ELSE Tail(line)>>
                     \o HeaderLines(Tail(lines))
            ELSE <<>>

\* Length of the longest prefix of s made of tokens in S (a greedy
\* character class of the pattern).
RECURSIVE Span(_, _)
Span(s, S) == IF s # <<>> /\ Head(s) \in S THEN 1 + Span(Tail(s), S) ELSE 0

RECURSIVE SpanNot(_, _)
SpanNot(s, stop) == IF s # <<>> /\ Head(s) # stop THEN 1 + SpanNot(Tail(s), stop) ELSE 0

Drop(s, n) == SubSeq(s, n + 1, Len(s))

\* line 42: "Depends":\s*"([^:]+):([^"]+)" matched at the start of s.
DependsKey == <<Quote, "Depends", Quote, ":">>
NoMatch == [ok |-> FALSE]

MatchDepends(s) ==
    IF ~StartsWith(s, DependsKey) THEN NoMatch
    ELSE LET s1 == Drop(s, Len(DependsKey))
             s2 == Drop(s1, Span(s1, Whitespace))
         IN IF ~StartsWith(s2, <<Quote>>) THEN NoMatch
            ELSE LET s3 == Tail(s2)
                     n == SpanNot(s3, ":")
                     s4 == Drop(s3, n)
                 IN IF n = 0 \/ s4 = <<>> THEN NoMatch
                    ELSE LET s5 == Tail(s4)
                             h == SpanNot(s5, Quote)
                             s6 == Drop(s5, h)
                         IN IF h = 0 \/ s6 = <<>> THEN NoMatch
                            ELSE [ok |-> TRUE, name |-> SubSeq(s3, 1, n),
                                  hash_val |-> SubSeq(s5, 1, h), rest |-> Tail(s6)]

\* line 43: re.findall, the non-overlapping matches from left to right.
RECURSIVE FindAll(_)
FindAll(s) ==
    IF s = <<>> THEN <<>>
    ELSE LET match == MatchDepends(s)
         IN IF match.ok
            THEN <<<<match.name, match.hash_val>>>> \o FindAll(match.rest)
            ELSE FindAll(Tail(s))

\* line 45: the dict comprehension; a later match replaces an earlier one
\* of the same name.
RECURSIVE DictOf(_)
DictOf(matches) ==
    IF matches = <<>> THEN <<>>
    ELSE LET last == matches[Len(matches)]
         IN (last[1] :> last[2]) @@ DictOf(SubSeq(matches, 1, Len(matches) - 1))

ParseContractHeader(content) ==
    DictOf(FindAll(Join(HeaderLines(Split(content, NL)), NL)))

(***************************************************************************)
(* artifacts.py: find_latest_runner.  A readable bundle is the sequence    *)
(* of its member names in archive order (tar.getmembers()).                *)
(***************************************************************************)
RunnerMembers(members, runner_type) ==
    SelectSeq(members,
              LAMBDA name : /\ StartsWith(name, RunnersSlash \o runner_type \o Slash)
                            /\ EndsWith(name, DotTar))

FindLatestRunner_FilePartFirst(members, runner_type) ==
    LET runners == RunnerMembers(members, runner_type)
    IN IF runners # <<>>
       THEN LET latest == runners[Len(runners)]
                parts == RemoveAll(RemoveAll(latest, RunnersSlash \o runner_type \o Slash),
                                   DotTar)
                split == Split(parts, "/")
            IN IF Len(split) = 2
               THEN Return(split[2] \o split[1])
               ELSE Raise("ValueError")
       ELSE ReturnNone

FindLatestRunner(members, runner_type) ==
    LET runners == RunnerMembers(members, runner_type)
    IN IF runners # <<>>
       THEN LET latest == runners[Len(runners)]
                parts == RemoveAll(RemoveAll(latest, RunnersSlash \o runner_type \o Slash),
                                   DotTar)
                split == Split(parts, "/")
            IN IF Len(split) = 2
               THEN Return(split[1] \o split[2])
               ELSE Raise("ValueError")
       ELSE ReturnNone

(***************************************************************************)
(* The cache directory, the release host and the invocations.              *)
(***************************************************************************)
Procs == {"p1", "p2"}
Versions == {"v1", "v2", "v3"}

None == "None"
Absent == "absent"      \* no file at the path
Partial == "partial"    \* a file the transfer has not finished writing

\* The bundle the release host serves for a tag.
RemoteBundle(version) ==
    IF version = "v1" THEN "bundle1" ELSE IF version = "v2" THEN "bundle2" ELSE "bundle3"

\* artifacts.py: get_tarball_path.  A file name is the sequence of the
\* pieces it is formatted from; every bundle lives in the one cache
\* directory, so the name stands for the path.
TarballPath(version) == <<"genvm-universal-", version, ".tar", ".xz">>

BundlePaths == {TarballPath(v) : v \in Versions}

NoPath == <<>>

(***************************************************************************)
(* Release bundles.  A readable bundle is the sequence of its members in   *)
(* archive order; a runner member is itself a tar archive, given by the    *)
(* files it holds (name and content) and whether it can be read to its     *)
(* end.                                                                    *)
(***************************************************************************)
\* The layout of a runner inside a bundle: runners/<type>/<dir>/<file>.tar
LayoutName(t, d, f) == RunnersSlash \o t \o Slash \o d \o Slash \o f \o DotTar

HashG == <<"a", "0", "g">>
HashS == <<"0", "a", "s">>
HashP == <<"0", "a", "p">>
HashE == <<"0", "a", "e">>
HashMissing == <<"z", "z">>
HashBare == <<"b", "0", "g">>
HashOld == <<"c", "0", "g">>
HashOldStd == <<"0", "b", "s">>

InnerTar(ok, entries) == [isfile |-> TRUE, ok |-> ok, entries |-> entries]
\* A member that is no regular file (extractfile returns None for it).
DirEntry == [isfile |-> FALSE, ok |-> FALSE, entries |-> <<>>]

Bundle1 ==
    <<[name |-> RunnersSlash \o PyGenlayer, inner |-> DirEntry],
      [name |-> LayoutName(PyGenlayer, <<"b", "0">>, <<"g">>),
       inner |-> InnerTar(TRUE, <<<<"src", "sdk">>>>)],
      [name |-> LayoutName(PyGenlayer, <<"c", "0">>, <<"g">>),
       inner |-> InnerTar(TRUE, <<<<"runner.json", "pins-old">>, <<"src", "sdk">>>>)],
      [name |-> LayoutName(PyLibStd, <<"0", "b">>, <<"s">>),
       inner |-> InnerTar(TRUE, <<<<"src", "legacy">>>>)],
      [name |-> LayoutName(PyGenlayer, <<"a", "0">>, <<"g">>),
       inner |-> InnerTar(TRUE, <<<<"runner.json", "pins-std">>, <<"src", "sdk">>>>)],
      [name |-> LayoutName(PyLibStd, <<"0", "a">>, <<"s">>),
       inner |-> InnerTar(TRUE, <<<<"src", "std">>>>)],
      [name |-> LayoutName(PyLibProtobuf, <<"0", "a">>, <<"p">>),
       inner |-> InnerTar(TRUE, <<<<"google", "protobuf">>>>)],
      [name |-> LayoutName(PyLibEmbeddings, <<"0", "a">>, <<"e">>),
       inner |-> InnerTar(TRUE, <<<<"src", "embeddings">>>>)]>>

Bundle2 ==
    <<[name |-> LayoutName(PyGenlayer, <<"c", "0">>, <<"g">>),
       inner |-> InnerTar(TRUE, <<<<"runner.json", "pins-old">>, <<"src", "sdk">>>>)],
      [name |-> LayoutName(PyLibStd, <<"0", "b">>, <<"s">>),
       inner |-> InnerTar(TRUE, <<<<"src", "std">>>>)],
      [name |-> LayoutName(PyGenlayer, <<"a", "0">>, <<"g">>),
       inner |-> InnerTar(TRUE, <<<<"runner.json", "pins-nothing">>, <<"src", "sdk">>>>)],
      [name |-> LayoutName(PyLibStd, <<"0", "a">>, <<"s">>),
       inner |-> InnerTar(FALSE, <<<<"src", "std">>, <<"README", "text">>>>)]>>

\* A release without any py-genlayer runner.
Bundle3 ==
    <<[name |-> LayoutName(PyLibStd, <<"0", "a">>, <<"s">>),
       inner |-> InnerTar(TRUE, <<<<"src", "std">>>>)],
      [name |-> LayoutName(PyLibProtobuf, <<"0", "a">>, <<"p">>),
       inner |-> InnerTar(TRUE, <<<<"google", "protobuf">>>>)]>>

BundleIds == {"bundle1", "bundle2", "bundle3"}

\* tarfile.open(path, "r:xz") succeeds on these contents only.
Readable(content) == content \in BundleIds

Members(content) ==
    IF content = "bundle1" THEN Bundle1 ELSE IF content = "bundle2" THEN Bundle2 ELSE Bundle3

MemberNamesOf(content) ==
    [i \in 1..Len(Members(content)) |-> Members(content)[i].name]

FileContents == {Absent, Partial} \cup BundleIds

RunnerTypes == {PyGenlayer, PyLibStd, PyLibProtobuf, PyLibEmbeddings}
RunnerHashes == {HashG, HashS, HashP, HashE, HashMissing, HashBare, HashOld, HashOldStd}

\* pathlib: Path.stem drops the last suffix of the name only.
PathSuffixes == {".tar", ".xz"}
PathStem(name) ==
    IF Len(name) > 0 /\ name[Len(name)] \in PathSuffixes
    THEN SubSeq(name, 1, Len(name) - 1)
    ELSE name

\* lines 100-102 of extract_runner: the component directory.
ExtractVersion(tarball_path) ==
    SelectSeq(PathStem(tarball_path), LAMBDA piece : piece # "genvm-universal-")

RunnerPath(tarball_path, runner_type, hash_val) ==
    <<"extracted", ExtractVersion(tarball_path), runner_type, hash_val>>

RunnerPaths ==
    {RunnerPath(b, t, h) : b \in BundlePaths, t \in RunnerTypes, h \in RunnerHashes}

NoDir == [exists |-> FALSE, entries |-> {}]
Dir(entries) == [exists |-> TRUE, entries |-> entries]

Sentinel == <<"sentinel", "placed by the test">>

NoEr == [tarball_path |-> NoPath, runner_type |-> <<>>, hash_val |-> <<>>,
         runner_path |-> NoPath, archive |-> None, inner |-> DirEntry, todo |-> <<>>,
         cached |-> FALSE, again |-> FALSE, before |-> NoDir, opened |-> FALSE,
         wrote |-> FALSE, cont |-> "top", result |-> Pending]

NoOp == [name |-> "none"]

NoDl == [arg |-> None, version |-> None, path |-> NoPath, hit |-> FALSE,
         missed |-> FALSE, wrote |-> FALSE, requests |-> {}, cont |-> "top",
         result |-> Pending]

NoVc == [contract |-> "", stages |-> <<>>, sdk_steps |-> <<>>,
         dependencies |-> <<>>, tarball_path |-> NoPath, sdk_paths |-> <<>>,
         lookups |-> {}, runner_path |-> NoPath, runner_deps |-> <<>>,
         exc |-> "", module |-> <<>>, contract_class |-> <<>>, schema |-> <<>>]

\* The interpreter of a process that has imported nothing yet: sys.path
\* without SDK entries, and of sys.modules the entries "contract",
\* "_genlayer_wasi" and "genlayer.py.get_schema" (the directory it was
\* imported from), and GENERATING_DOCS of os.environ.
NoSys == [path |-> <<>>, contract |-> <<>>, wasi |-> <<>>, get_schema |-> <<>>,
          generating_docs |-> <<>>]

procVars == <<pc, op, outcome, dl, er, vc>>

InitCache ==
    /\ files = [path \in BundlePaths |-> Absent]
    /\ dirs = [path \in RunnerPaths |-> NoDir]
    /\ latest_release = "v1"

InitProcs ==
    /\ pc = [p \in Procs |-> "idle"]
    /\ op = [p \in Procs |-> NoOp]
    /\ outcome = [p \in Procs |-> Pending]
    /\ dl = [p \in Procs |-> NoDl]
    /\ er = [p \in Procs |-> NoEr]
    /\ vc = [p \in Procs |-> NoVc]
    /\ sys = [p \in Procs |-> NoSys]
    /\ extracted = {}

\* The release host publishes a newer release.
PublishRelease ==
    /\ latest_release # "v3"
    /\ latest_release' = IF latest_release = "v1" THEN "v2" ELSE "v3"
    /\ UNCHANGED <<pureVars, sysVars, fsVars, procVars, histVars>>

(***************************************************************************)
(* Contract files.  A contract is given by what the pipeline reads of it:  *)
(* whether the file exists, the dependencies its header declares, what     *)
(* executing it as a module does, and the namespace of the loaded module.  *)
(***************************************************************************)
\* Optional values: None is the empty sequence, a value v is <<v>>.
NoneV == <<>>
Some(v) == <<v>>

\* dict[str, str] of dependency name -> hash.
EmptyDeps == <<>>
Dep(name, hash_val) == name :> hash_val

\* An attribute of a class as find_contract_class sees it: getattr may
\* raise (a descriptor whose __get__ raises), else the value may be
\* callable and may carry __gl_public__.
Attr(name, isCallable, public, raises) ==
    [name |-> name, callable |-> isCallable, public |-> public, raises |-> raises]

\* An entry of vars(module): the name it is bound to and the object.  A
\* class the contract file declares has __module__ "contract", the name
\* load_contract_module gives the module.
ClassEntry(name, clsname, attrs, mro, reflect) ==
    [name |-> name, isclass |-> TRUE, clsname |-> clsname, attrs |-> attrs,
     mro |-> mro, reflect |-> reflect, module |-> "contract"]
OtherEntry(name) ==
    [name |-> name, isclass |-> FALSE, clsname |-> "", attrs |-> <<>>,
     mro |-> <<>>, reflect |-> Raise("TypeError"), module |-> ""]
\* A class the contract file imports from another module.
ImportedFrom(entry, module) == [entry EXCEPT !.module = module]

\* Schemas the SDK's get_schema returns.
Method(readonly) == [readonly |-> readonly, params |-> <<>>]
SchemaOneMethod ==
    [ctor |-> [params |-> <<>>], methods |-> [get_value |-> Method(TRUE)]]
SchemaTwoMethods ==
    [ctor |-> [params |-> <<"owner">>],
     methods |-> [get_balance |-> Method(TRUE), deposit |-> Method(FALSE)]]

\* The text of a TypeError of the SDK, as the pieces it is made of.
MsgWithLine == <<"invalid type ", "{", "'line':", " ", "9", "}">>
MsgNoLine == <<"invalid type ", "u64">>
MsgLineWord == <<"invalid type at ", "line", " ", "9">>
MsgTwoLines == <<"{", "'line':", "}", " ", "{", "'line':", "1", "2", ",", "'line':", "7", "}">>

RaiseMsg(e, msg) == [tag |-> "raise", exc |-> e, msg |-> msg]

PublicClass ==
    ClassEntry("Token", "Token",
               <<Attr("__init__", TRUE, FALSE, FALSE), Attr("get_value", TRUE, TRUE, FALSE)>>,
               <<"Token", "object">>, Return(SchemaOneMethod))
DerivedClass(reflect) ==
    ClassEntry("Vault", "Vault",
               <<Attr("__init__", TRUE, FALSE, FALSE), Attr("balance", FALSE, FALSE, FALSE)>>,
               <<"Vault", "Contract", "object">>, reflect)
HelperClass ==
    ClassEntry("Helper", "Helper",
               <<Attr("__init__", TRUE, FALSE, FALSE), Attr("run", TRUE, FALSE, FALSE)>>,
               <<"Helper", "object">>, RaiseMsg("TypeError", MsgNoLine))
DescriptorClass ==
    ClassEntry("Lazy", "Lazy",
               <<Attr("__init__", TRUE, FALSE, FALSE), Attr("value", FALSE, FALSE, TRUE)>>,
               <<"Lazy", "Contract", "object">>, Return(SchemaOneMethod))
\* A class that is no contract, with an attribute whose access raises.
PlainDescriptorClass ==
    ClassEntry("Cache", "Cache",
               <<Attr("__init__", TRUE, FALSE, FALSE), Attr("value", FALSE, FALSE, TRUE)>>,
               <<"Cache", "object">>, RaiseMsg("TypeError", MsgNoLine))
BaseContractEntry ==
    ClassEntry("Contract", "Contract", <<>>, <<"Contract", "object">>,
               RaiseMsg("TypeError", MsgNoLine))

ContractFile(exists, readable, header, load, namespace) ==
    [exists |-> exists, readable |-> readable, header |-> header, load |-> load,
     namespace |-> namespace]

Loaded == [tag |-> "ok"]
SyntaxErrorAt(lineno) == [tag |-> "SyntaxError", msg |-> "invalid syntax", lineno |-> lineno]

ContractIds ==
    {"missing.py", "token.py", "vault.py", "typed.py", "untyped.py", "broken.py",
     "opaque.py", "bare.py", "old.py", "reexport.py", "worded.py", "nested.py", "syntax.py", "indent.py", "plain.py", "import.py", "crash.py", "empty.py", "lazy.py", "binary.py"}

Contract(c) ==
    CASE c = "missing.py" ->
            ContractFile(FALSE, FALSE, EmptyDeps, Loaded, <<>>)
      [] c = "token.py" ->
            ContractFile(TRUE, TRUE, Dep(PyGenlayer, HashG), Loaded,
                         <<OtherEntry("gl"), BaseContractEntry, PublicClass>>)
      [] c = "vault.py" ->
            ContractFile(TRUE, TRUE, EmptyDeps, Loaded,
                         <<HelperClass, DerivedClass(Return(SchemaTwoMethods))>>)
      [] c = "typed.py" ->
            ContractFile(TRUE, TRUE, Dep(PyGenlayer, HashG) @@ Dep(PyLibEmbeddings, HashE),
                         Loaded, <<DerivedClass(RaiseMsg("TypeError", MsgWithLine))>>)
      [] c = "untyped.py" ->
            ContractFile(TRUE, TRUE, Dep(PyGenlayer, HashG), Loaded,
                         <<DerivedClass(RaiseMsg("TypeError", MsgNoLine))>>)
      [] c = "broken.py" ->
            ContractFile(TRUE, TRUE, Dep(PyGenlayer, HashMissing), Loaded,
                         <<DerivedClass(RaiseMsg("ValueError", MsgNoLine))>>)
      [] c = "worded.py" ->
            ContractFile(TRUE, TRUE, Dep(PyGenlayer, HashG), Loaded,
                         <<DerivedClass(RaiseMsg("TypeError", MsgLineWord))>>)
      [] c = "nested.py" ->
            ContractFile(TRUE, TRUE, Dep(PyGenlayer, HashG), Loaded,
                         <<DerivedClass(RaiseMsg("TypeError", MsgTwoLines))>>)
      [] c = "opaque.py" ->
            ContractFile(TRUE, TRUE, Dep(PyGenlayer, HashG), Loaded,
                         <<DerivedClass(RaiseMsg("ValueError", MsgNoLine))>>)
      [] c = "bare.py" ->
            ContractFile(TRUE, TRUE, Dep(PyGenlayer, HashBare), Loaded,
                         <<OtherEntry("gl"), BaseContractEntry, PublicClass>>)
      [] c = "old.py" ->
            ContractFile(TRUE, TRUE, Dep(PyGenlayer, HashOld), Loaded,
                         <<OtherEntry("gl"), BaseContractEntry, PublicClass>>)
      [] c = "reexport.py" ->
            ContractFile(TRUE, TRUE, Dep(PyGenlayer, HashG), Loaded,
                         <<OtherEntry("gl"),
                           ImportedFrom(DerivedClass(Return(SchemaTwoMethods)), "vaults"),
                           PublicClass>>)
      [] c = "syntax.py" ->
            ContractFile(TRUE, TRUE, Dep(PyGenlayer, HashG), SyntaxErrorAt(7), <<>>)
      [] c = "indent.py" ->
            ContractFile(TRUE, TRUE, EmptyDeps, SyntaxErrorAt(2), <<>>)
      [] c = "plain.py" ->
            ContractFile(TRUE, TRUE, Dep(PyGenlayer, HashG), Loaded,
                         <<OtherEntry("gl"), PlainDescriptorClass>>)
      [] c = "import.py" ->
            ContractFile(TRUE, TRUE, Dep(PyGenlayer, HashG),
                         [tag |-> "ImportError"], <<>>)
      [] c = "crash.py" ->
            ContractFile(TRUE, TRUE, Dep(PyGenlayer, HashG),
                         [tag |-> "Exception"], <<>>)
      [] c = "empty.py" ->
            ContractFile(TRUE, TRUE, Dep(PyGenlayer, HashG), Loaded,
                         <<OtherEntry("gl"), BaseContractEntry, HelperClass>>)
      [] c = "lazy.py" ->
            ContractFile(TRUE, TRUE, Dep(PyGenlayer, HashG), Loaded,
                         <<HelperClass, DescriptorClass>>)
      [] OTHER ->
            ContractFile(TRUE, FALSE, EmptyDeps, [tag |-> "Exception"], <<>>)

(***************************************************************************)
(* sdk_loader.py: find_contract_class                                      *)
(***************************************************************************)
\* lines 170-173: the loop over dir(obj); "raise" when a getattr raises,
\* "public" at the first callable attribute carrying __gl_public__.
RECURSIVE ScanAttrs(_)
ScanAttrs(attrs) ==
    IF attrs = <<>> THEN "none"
    ELSE IF Head(attrs).raises THEN "raise"
    ELSE IF Head(attrs).callable /\ Head(attrs).public THEN "public"
    ELSE ScanAttrs(Tail(attrs))

RECURSIVE FindContractClass(_)
FindContractClass(module) ==
    IF module = <<>> THEN ReturnNone
    ELSE LET obj == Head(module)
         IN IF ~obj.isclass \/ obj.name = "Contract"
            THEN FindContractClass(Tail(module))
            ELSE LET scan == ScanAttrs(obj.attrs)
                     bases == {obj.mro[i] : i \in {j \in 1..Len(obj.mro) :
                                                       obj.mro[j] # "object"}}
                 IN IF scan = "raise" THEN Raise("RuntimeError")
                    ELSE IF scan = "public" THEN Return(obj)
                    ELSE IF "Contract" \in bases THEN Return(obj)
                    ELSE FindContractClass(Tail(module))

(***************************************************************************)
(* artifacts.py: parse_runner_manifest, on the files of the extracted      *)
(* component directory.                                                    *)
(***************************************************************************)
ManifestDeps(data) ==
    IF data = "pins-std" THEN Dep(PyLibStd, HashS)
    ELSE IF data = "pins-old" THEN Dep(PyLibStd, HashOldStd)
    ELSE EmptyDeps

ParseRunnerManifest(dir) ==
    LET manifests == {e \in dir.entries : e[1] = "runner.json"}
    IN IF manifests = {} THEN Return(EmptyDeps)
       ELSE LET runner_json == CHOOSE e \in manifests : TRUE
            IN IF runner_json[2] = "not-json" THEN Raise("JSONDecodeError")
               ELSE Return(ManifestDeps(runner_json[2]))

(***************************************************************************)
(* validator.py: the ValidationResult values validate_contract builds.     *)
(***************************************************************************)
ValidationResult(ok, contract_name, schema, errors) ==
    [ok |-> ok, contract_name |-> contract_name, schema |-> schema, errors |-> errors]

Error(code, msg) == [code |-> code, msg |-> msg]
ErrorAt_NoLine(code, msg, line) == [code |-> code, msg |-> msg]

ErrorAt(code, msg, line) == [code |-> code, msg |-> msg, line |-> line]

\* The branches of validate_contract that return a failure.
Failure_OkSet(error) == ValidationResult(TRUE, NoneV, NoneV, <<error>>)

Failure(error) == ValidationResult(FALSE, NoneV, NoneV, <<error>>)

\* lines 127-131
Success_MethodsOnly(contract_class, schema) ==
    ValidationResult(TRUE, Some(contract_class.clsname), Some(schema.methods), <<>>)

Success(contract_class, schema) ==
    ValidationResult(TRUE, Some(contract_class.clsname), Some(schema), <<>>)

\* lines 19-37: ValidationResult.to_dict.  A key is set when the field is
\* truthy: a non-empty name, a non-empty schema, a non-empty error list.
ToDictKeys(r) ==
    {"ok"}
    \cup (IF r.contract_name # NoneV /\ r.contract_name[1] # "" THEN {"contract"} ELSE {})
    \cup (IF r.schema # NoneV /\ DOMAIN r.schema[1] # {}
          THEN {"methods", "view_methods", "write_methods", "ctor_params"} ELSE {})
    \cup (IF r.errors # <<>> THEN {"errors"} ELSE {})

ToDict(r) ==
    LET schema == r.schema[1]
        methods == IF "methods" \in DOMAIN schema THEN schema.methods ELSE <<>>
        readonly(m) == IF "readonly" \in DOMAIN methods[m] THEN methods[m].readonly ELSE FALSE
        ctor == IF "ctor" \in DOMAIN schema THEN schema.ctor ELSE <<>>
    IN [k \in ToDictKeys(r) |->
           CASE k = "ok" -> r.ok
             [] k = "contract" -> r.contract_name[1]
             [] k = "methods" -> Cardinality(DOMAIN methods)
             [] k = "view_methods" -> Cardinality({m \in DOMAIN methods : readonly(m)})
             [] k = "write_methods" -> Cardinality({m \in DOMAIN methods : ~readonly(m)})
             [] k = "ctor_params" ->
                    IF "params" \in DOMAIN ctor THEN Len(ctor.params) ELSE 0
             [] k = "errors" -> r.errors]

\* lines 113-118: re.search(r"'line':\s*(\d+)", error_msg), on the pieces
\* of the message; int() of the digits found.  The test "line" in
\* error_msg of line 113 holds of every message the pattern matches.
DigitValue(d) == CHOOSE n \in 0..9 : <<"0", "1", "2", "3", "4", "5", "6", "7", "8", "9">>[n + 1] = d
Digits == {"0", "1", "2", "3", "4", "5", "6", "7", "8", "9"}

RECURSIVE SkipSpaces(_)
SkipSpaces(msg) ==
    IF msg # <<>> /\ Head(msg) = " " THEN SkipSpaces(Tail(msg)) ELSE msg

\* (\d+): the longest run of digits at the front, and int() of a run.
RECURSIVE DigitRun(_)
DigitRun(msg) ==
    IF msg # <<>> /\ Head(msg) \in Digits THEN <<Head(msg)>> \o DigitRun(Tail(msg)) ELSE <<>>

RECURSIVE IntOf(_)
IntOf(run) ==
    IF run = <<>> THEN 0
    ELSE 10 * IntOf(SubSeq(run, 1, Len(run) - 1)) + DigitValue(run[Len(run)])

RECURSIVE SearchLine_NoSpaces(_)
SearchLine_NoSpaces(msg) ==
    IF msg = <<>> THEN NoneV
    ELSE IF Head(msg) = "'line':" /\ DigitRun(Tail(msg)) # <<>>
         THEN Some(IntOf(DigitRun(Tail(msg))))
         ELSE SearchLine_NoSpaces(Tail(msg))

RECURSIVE SearchLine(_)
SearchLine(msg) ==
    IF msg = <<>> THEN NoneV
    ELSE IF Head(msg) = "'line':" /\ DigitRun(SkipSpaces(Tail(msg))) # <<>>
         THEN Some(IntOf(DigitRun(SkipSpaces(Tail(msg)))))
         ELSE SearchLine(Tail(msg))

(***************************************************************************)
(* artifacts.py: download_artifacts, one step per statement that reads or  *)
(* writes the cache or the network.                                        *)
(***************************************************************************)
\* download_artifacts ends with result r: control returns to its caller.
DlEnd(p, r) ==
    /\ pc' = [pc EXCEPT ![p] = IF dl[p].cont = "top" THEN "done" ELSE "ls_downloaded"]
    /\ outcome' = [outcome EXCEPT ![p] = IF dl[p].cont = "top" THEN r ELSE @]

StartDownload(p, version) ==
    /\ pc[p] = "idle"
    /\ op' = [op EXCEPT ![p] = [name |-> "download_artifacts", version |-> version]]
    /\ dl' = [dl EXCEPT ![p] = [NoDl EXCEPT !.arg = version]]
    /\ pc' = [pc EXCEPT ![p] = "dl_resolve"]
    /\ UNCHANGED <<outcome, vc, er, pureVars, sysVars, fsVars, netVars, histVars>>

\* lines 45-48: version = get_latest_version() when omitted (a HEAD request
\* that follows the redirect of /releases/latest), then get_tarball_path.
DlResolve(p) ==
    /\ pc[p] = "dl_resolve"
    /\ IF dl[p].arg = None
       THEN \/ /\ dl' = [dl EXCEPT ![p].requests = @ \cup {"HEAD"},
                                   ![p].version = latest_release,
                                   ![p].path = TarballPath(latest_release)]
               /\ pc' = [pc EXCEPT ![p] = "dl_check"]
               /\ UNCHANGED outcome
            \/ /\ dl' = [dl EXCEPT ![p].requests = @ \cup {"HEAD"},
                                   ![p].result = Raise("URLError")]
               /\ DlEnd(p, Raise("URLError"))
       ELSE /\ dl' = [dl EXCEPT ![p].version = dl[p].arg,
                                ![p].path = TarballPath(dl[p].arg)]
            /\ pc' = [pc EXCEPT ![p] = "dl_check"]
            /\ UNCHANGED outcome
    /\ UNCHANGED <<op, vc, er, pureVars, sysVars, fsVars, netVars, histVars>>

\* lines 50-51: if tarball_path.exists(): return tarball_path
DlCheck(p) ==
    /\ pc[p] = "dl_check"
    /\ IF files[dl[p].path] # Absent
       THEN /\ dl' = [dl EXCEPT ![p].hit = TRUE, ![p].result = Return(dl[p].path)]
            /\ DlEnd(p, Return(dl[p].path))
       ELSE /\ dl' = [dl EXCEPT ![p].missed = TRUE]
            /\ pc' = [pc EXCEPT ![p] = "dl_retrieve"]
            /\ UNCHANGED outcome
    /\ UNCHANGED <<op, vc, er, pureVars, sysVars, fsVars, netVars, histVars>>

\* line 61, urlretrieve: the GET request is sent; it fails before anything
\* is written, or the target file is created and the transfer starts.
DlRetrieveOpen(p) ==
    /\ pc[p] = "dl_retrieve"
    /\ \/ /\ dl' = [dl EXCEPT ![p].requests = @ \cup {"GET"}]
          /\ pc' = [pc EXCEPT ![p] = "dl_except"]
          /\ UNCHANGED files
       \/ /\ dl' = [dl EXCEPT ![p].requests = @ \cup {"GET"}, ![p].wrote = TRUE]
          /\ files' = [files EXCEPT ![dl[p].path] = Partial]
          /\ pc' = [pc EXCEPT ![p] = "dl_transfer"]
    /\ UNCHANGED <<op, vc, outcome, er, dirs, pureVars, sysVars, netVars, histVars>>

\* lines 61-62, urlretrieve: the transfer completes and the path is
\* returned, or it breaks off and leaves what was written so far.
DlRetrieveTransfer(p) ==
    /\ pc[p] = "dl_transfer"
    /\ \/ /\ files' = [files EXCEPT ![dl[p].path] = RemoteBundle(dl[p].version)]
          /\ dl' = [dl EXCEPT ![p].result = Return(dl[p].path)]
          /\ DlEnd(p, Return(dl[p].path))
       \/ /\ pc' = [pc EXCEPT ![p] = "dl_except"]
          /\ UNCHANGED <<files, dl, outcome>>
    /\ UNCHANGED <<op, vc, er, dirs, pureVars, sysVars, netVars, histVars>>

\* lines 63-66: except Exception: unlink the file if it exists, re-raise.
DlExcept_NoUnlink(p) ==
    /\ pc[p] = "dl_except"
    /\ dl' = [dl EXCEPT ![p].result = Raise("URLError")]
    /\ DlEnd(p, Raise("URLError"))
    /\ UNCHANGED <<files, op, vc, er, dirs, pureVars, sysVars, netVars, histVars>>

DlExcept(p) ==
    /\ pc[p] = "dl_except"
    /\ files' = [files EXCEPT ![dl[p].path] = Absent]
    /\ dl' = [dl EXCEPT ![p].result = Raise("URLError")]
    /\ DlEnd(p, Raise("URLError"))
    /\ UNCHANGED <<op, vc, er, dirs, pureVars, sysVars, netVars, histVars>>

(***************************************************************************)
(* artifacts.py: extract_runner, one step per statement that reads or      *)
(* writes the cache.                                                       *)
(***************************************************************************)
\* extract_runner ends with result r: control returns to its caller.
ErEnd(p, r) ==
    /\ pc' = [pc EXCEPT ![p] = IF er[p].cont = "top" THEN "done" ELSE er[p].cont]
    /\ outcome' = [outcome EXCEPT ![p] = IF er[p].cont = "top" THEN r ELSE @]
    /\ extracted' = IF r.tag = "return"
                    THEN extracted \cup {<<er[p].tarball_path, er[p].runner_type,
                                           er[p].hash_val, r.val>>}
                    ELSE extracted

\* The frame of a call extract_runner(tarball_path, runner_type, hash_val)
\* after lines 100-102.
ErFrame(tarball_path, runner_type, hash_val, cont) ==
    [NoEr EXCEPT !.tarball_path = tarball_path,
                 !.runner_type = runner_type,
                 !.hash_val = hash_val,
                 !.runner_path = RunnerPath(tarball_path, runner_type, hash_val),
                 !.again = \E e \in extracted :
                               <<e[1], e[2], e[3]>> = <<tarball_path, runner_type, hash_val>>,
                 !.before = dirs[RunnerPath(tarball_path, runner_type, hash_val)],
                 !.cont = cont]

StartExtract(p, tarball_path, runner_type, hash_val) ==
    /\ pc[p] = "idle"
    /\ op' = [op EXCEPT ![p] = [name |-> "extract_runner"]]
    /\ er' = [er EXCEPT ![p] = ErFrame(tarball_path, runner_type, hash_val, "top")]
    /\ pc' = [pc EXCEPT ![p] = "er_check"]
    /\ UNCHANGED <<outcome, vc, dl, pureVars, sysVars, fsVars, netVars, histVars>>

\* lines 104-105: if runner_path.exists(): return runner_path
ErCheck_NoShortCircuit(p) ==
    /\ pc[p] = "er_check"
    /\ pc' = [pc EXCEPT ![p] = "er_mkdir"]
    /\ UNCHANGED <<er, outcome, extracted>>
    /\ UNCHANGED <<op, vc, dl, pureVars, sysVars, fsVars, netVars>>

ErCheck(p) ==
    /\ pc[p] = "er_check"
    /\ IF dirs[er[p].runner_path].exists
       THEN /\ er' = [er EXCEPT ![p].cached = TRUE,
                                ![p].result = Return(er[p].runner_path)]
            /\ ErEnd(p, Return(er[p].runner_path))
       ELSE /\ pc' = [pc EXCEPT ![p] = "er_mkdir"]
            /\ UNCHANGED <<er, outcome, extracted>>
    /\ UNCHANGED <<op, vc, dl, pureVars, sysVars, fsVars, netVars>>

\* line 107: runner_path.mkdir(parents=True, exist_ok=True); an OSError
\* here is raised outside the try block.
ErMkdir(p) ==
    /\ pc[p] = "er_mkdir"
    /\ \/ /\ dirs' = [dirs EXCEPT ![er[p].runner_path] =
                          IF @.exists THEN @ ELSE Dir({})]
          /\ pc' = [pc EXCEPT ![p] = "er_open"]
          /\ UNCHANGED <<er, outcome, extracted>>
       \/ /\ er' = [er EXCEPT ![p].result = Raise("OSError")]
          /\ ErEnd(p, Raise("OSError"))
          /\ UNCHANGED dirs
    /\ UNCHANGED <<op, vc, dl, files, pureVars, sysVars, netVars>>

\* line 111: tarfile.open(tarball_path, "r:xz")
ErOpenOuter(p) ==
    /\ pc[p] = "er_open"
    /\ IF Readable(files[er[p].tarball_path])
       THEN /\ er' = [er EXCEPT ![p].archive = files[er[p].tarball_path],
                                ![p].opened = TRUE]
            /\ pc' = [pc EXCEPT ![p] = "er_getmember"]
       ELSE /\ er' = [er EXCEPT ![p].opened = TRUE]
            /\ pc' = [pc EXCEPT ![p] = "er_except"]
    /\ UNCHANGED <<op, vc, outcome, dl, pureVars, sysVars, fsVars, netVars, histVars>>

\* lines 112-116: getmember raises KeyError for a name the archive does not
\* hold; extractfile returns None for a member that is no regular file.
ErGetMember(p) ==
    /\ pc[p] = "er_getmember"
    /\ LET tar_member_path == HashToTarPath(er[p].runner_type, er[p].hash_val)
           members == Members(er[p].archive)
           found == {i \in 1..Len(members) : members[i].name = tar_member_path}
       IN IF found = {}
          THEN /\ pc' = [pc EXCEPT ![p] = "er_except"]
               /\ UNCHANGED er
          ELSE LET inner_tar_member == members[CHOOSE i \in found : \A j \in found : j <= i]
               IN IF inner_tar_member.inner.isfile
                  THEN /\ er' = [er EXCEPT ![p].inner = inner_tar_member.inner]
                       /\ pc' = [pc EXCEPT ![p] = "er_open_inner"]
                  ELSE /\ pc' = [pc EXCEPT ![p] = "er_except"]
                       /\ UNCHANGED er
    /\ UNCHANGED <<op, vc, outcome, dl, pureVars, sysVars, fsVars, netVars, histVars>>

\* line 118: tarfile.open(fileobj=inner_tar_file, mode="r:"); an inner
\* archive that cannot be read to its end fails here or while extracting.
ErOpenInner(p) ==
    /\ pc[p] = "er_open_inner"
    /\ \/ /\ er' = [er EXCEPT ![p].todo = er[p].inner.entries]
          /\ pc' = [pc EXCEPT ![p] = "er_extractall"]
       \/ /\ ~er[p].inner.ok
          /\ pc' = [pc EXCEPT ![p] = "er_except"]
          /\ UNCHANGED er
    /\ UNCHANGED <<op, vc, outcome, dl, pureVars, sysVars, fsVars, netVars, histVars>>

\* lines 119-121: extractall writes the entries one after the other; a
\* write can fail (OSError), and a damaged archive fails before its end.
ErExtractAll(p) ==
    /\ pc[p] = "er_extractall"
    /\ \/ /\ er[p].todo # <<>>
          /\ dirs' = [dirs EXCEPT ![er[p].runner_path] =
                          Dir(@.entries \cup {Head(er[p].todo)})]
          /\ er' = [er EXCEPT ![p].todo = Tail(@), ![p].wrote = TRUE]
          /\ UNCHANGED <<pc, outcome, extracted>>
       \/ /\ er[p].todo # <<>> \/ ~er[p].inner.ok
          /\ pc' = [pc EXCEPT ![p] = "er_except"]
          /\ UNCHANGED <<dirs, er, outcome, extracted>>
       \/ /\ er[p].todo = <<>>
          /\ er[p].inner.ok
          /\ er' = [er EXCEPT ![p].result = Return(er[p].runner_path)]
          /\ ErEnd(p, Return(er[p].runner_path))
          /\ UNCHANGED dirs
    /\ UNCHANGED <<op, vc, dl, files, pureVars, sysVars, netVars>>

\* lines 122-126: except Exception: rmtree the directory if it exists,
\* re-raise.
ErExcept_NoCleanup(p) ==
    /\ pc[p] = "er_except"
    /\ er' = [er EXCEPT ![p].result = Raise("Exception")]
    /\ ErEnd(p, Raise("Exception"))
    /\ UNCHANGED <<op, vc, dl, files, dirs, pureVars, sysVars, netVars>>

ErExcept(p) ==
    /\ pc[p] = "er_except"
    /\ dirs' = [dirs EXCEPT ![er[p].runner_path] = NoDir]
    /\ er' = [er EXCEPT ![p].result = Raise("Exception")]
    /\ ErEnd(p, Raise("Exception"))
    /\ UNCHANGED <<op, vc, dl, files, pureVars, sysVars, netVars>>

ExtractStep(p) ==
    \/ ErCheck(p)
    \/ ErMkdir(p)
    \/ ErOpenOuter(p)
    \/ ErGetMember(p)
    \/ ErOpenInner(p)
    \/ ErExtractAll(p)
    \/ ErExcept(p)

(***************************************************************************)
(* What happens to the cache from outside the program.                     *)
(***************************************************************************)
\* A test places a sentinel file in an extracted component directory.
PlaceSentinel(path) ==
    /\ dirs[path].exists
    /\ Sentinel \notin dirs[path].entries
    /\ dirs' = [dirs EXCEPT ![path] = Dir(@.entries \cup {Sentinel})]
    /\ UNCHANGED <<files, pureVars, sysVars, netVars, procVars, histVars>>

\* The bundle file at a path is replaced, damaged or removed.
ReplaceBundle(path, content) ==
    /\ files[path] # content
    /\ files' = [files EXCEPT ![path] = content]
    /\ UNCHANGED <<dirs, pureVars, sysVars, netVars, procVars, histVars>>

(***************************************************************************)
(* lint/structure.py: check_structure, on the text of the source.          *)
(***************************************************************************)
\* "".join(parts)
RECURSIVE Concat(_)
Concat(parts) == IF parts = <<>> THEN <<>> ELSE Head(parts) \o Concat(Tail(parts))

\* sub in s
Contains(s, sub) ==
    \E i \in 1..(Len(s) - Len(sub) + 1) : SubSeq(s, i, i + Len(sub) - 1) = sub

Warning(code, msg, line) == [code |-> code, msg |-> msg, line |-> line]

\* lines 35-72.  The loop of lines 40-44 is the loop of
\* parse_contract_header; the lines are joined without a separator.
CheckStructure(source) ==
    LET header_content == HeaderLines(Split(source, NL))
        header_text == Concat(header_content)
        has_header == /\ header_content # <<>>
                      /\ Contains(header_text, <<Quote, "Seq", Quote>>)
                      /\ Contains(header_text, <<Quote, "Depends", Quote>>)
    IN IF ~has_header
       THEN <<Warning("W010", "Missing contract dependency header", 1)>>
       ELSE IF ~Contains(header_text, <<"py-genlayer", ":">>)
       THEN <<Warning("W011", "Missing py-genlayer dependency in header", 1)>>
       ELSE <<>>

(***************************************************************************)
(* lint/safety.py: check_safety.  The body of a source that parses is the  *)
(* sequence of the import and call nodes the visitor reaches, a dotted     *)
(* name being the sequence of its parts.                                   *)
(***************************************************************************)
FORBIDDEN_MODULES ==
    {"random", "os", "sys", "subprocess", "threading", "multiprocessing", "asyncio",
     "socket", "http", "requests", "pickle", "shelve", "sqlite3", "tempfile", "shutil",
     "glob", "pathlib", "io", "builtins"}
ALLOWED_MODULES == {<<"urllib", "parse">>}
FORBIDDEN_CALLS ==
    {<<"time", "time">>, <<"time", "localtime">>, <<"time", "gmtime">>,
     <<"uuid", "uuid1">>, <<"uuid", "uuid4">>}

ImportNode(names, line) == [kind |-> "Import", names |-> names, line |-> line]
ImportFromNode(module, line) == [kind |-> "ImportFrom", names |-> <<module>>, line |-> line]
\* func is the dotted name of the callee, <<>> when the callee is no name.
CallNode(func, line) == [kind |-> "Call", names |-> <<func>>, line |-> line]

\* lines 61-75: visit_Import, one alias after the other.
RECURSIVE VisitImport(_, _)
VisitImport(names, line) ==
    IF names = <<>> THEN <<>>
    ELSE LET name == Head(names)
         IN (IF name \notin ALLOWED_MODULES /\ name[1] \in FORBIDDEN_MODULES
             THEN <<Warning("W001", <<"Forbidden import ", name>>, line)>>
             ELSE <<>>)
            \o VisitImport(Tail(names), line)

\* lines 77-93: visit_ImportFrom; from . import x has no module.
VisitImportFrom(module, line) ==
    IF module = <<>> \/ module \in ALLOWED_MODULES THEN <<>>
    ELSE IF module[1] \in FORBIDDEN_MODULES
    THEN <<Warning("W001", <<"Forbidden import from ", module>>, line)>>
    ELSE <<>>

\* lines 95-118: visit_Call
VisitCall(func, line) ==
    (IF func \in FORBIDDEN_CALLS
     THEN <<Warning("W002", <<"Non-deterministic call ", func>>, line)>> ELSE <<>>)
    \o (IF func = <<"float">>
        THEN <<Warning("W003", "Use of 'float' type", line)>> ELSE <<>>)

RECURSIVE Visit(_)
Visit(body) ==
    IF body = <<>> THEN <<>>
    ELSE LET node == Head(body)
         IN (CASE node.kind = "Import" -> VisitImport(node.names, node.line)
               [] node.kind = "ImportFrom" -> VisitImportFrom(node.names[1], node.line)
               [] OTHER -> VisitCall(node.names[1], node.line))
            \o Visit(Tail(body))

\* lines 139-161: a source that does not parse has no safety warning.
CheckSafety(file) == IF file.syntax # NoneV THEN <<>> ELSE Visit(file.body)

(***************************************************************************)
(* lint/linter.py: lint_contract.  A contract file for the linter is       *)
(* whether it exists, its text up to the end of the header, the body, and  *)
(* the SyntaxError ast.parse raises on it, if any, by its lineno.          *)
(***************************************************************************)
LintResult(ok, checks_passed, warnings) ==
    [ok |-> ok, checks_passed |-> checks_passed, warnings |-> warnings]

\* lines 76-86: ast.parse; "line": e.lineno or 1, a lineno of None being 0
\* here.
CheckSyntax(file) ==
    IF file.syntax = NoneV THEN <<>>
    ELSE <<Warning("E001", "Syntax error", IF file.syntax[1] = 0 THEN 1 ELSE file.syntax[1])>>

Passed(warnings) == IF warnings = <<>> THEN 1 ELSE 0

\* The structure check is not run when the safety check has warned.
LintContract_SkipAfterWarning(file) ==
    IF ~file.exists
    THEN LintResult(FALSE, 0, <<[code |-> "E100", msg |-> "Contract not found"]>>)
    ELSE LET safety_warnings == CheckSafety(file)
             structure_warnings == IF safety_warnings # <<>> THEN <<>>
                                   ELSE CheckStructure(file.content)
             syntax == CheckSyntax(file)
             all_warnings == safety_warnings \o structure_warnings \o syntax
         IN LintResult(all_warnings = <<>>,
                       Passed(safety_warnings) + Passed(structure_warnings) + Passed(syntax),
                       all_warnings)

\* lines 30-93
LintContract(file) ==
    IF ~file.exists
    THEN LintResult(FALSE, 0, <<[code |-> "E100", msg |-> "Contract not found"]>>)
    ELSE LET safety_warnings == CheckSafety(file)
             structure_warnings == CheckStructure(file.content)
             syntax == CheckSyntax(file)
             all_warnings == safety_warnings \o structure_warnings \o syntax
         IN LintResult(all_warnings = <<>>,
                       Passed(safety_warnings) + Passed(structure_warnings) + Passed(syntax),
                       all_warnings)

(***************************************************************************)
(* validator.py: validate_contract, and sdk_loader.py: load_sdk and        *)
(* extract_sdk_paths, which it runs inside its first try block.            *)
(***************************************************************************)
Stage(name, ok) == [stage |-> name, ok |-> ok]

\* validate_contract returns result r.
VcReturn(p, stage, ok, r) ==
    /\ vc' = [vc EXCEPT ![p].stages = Append(@, Stage(stage, ok))]
    /\ outcome' = [outcome EXCEPT ![p] = Return(r)]
    /\ pc' = [pc EXCEPT ![p] = "done"]

\* An exception e is raised inside load_sdk.
SdkRaise(p, e) ==
    /\ vc' = [vc EXCEPT ![p].exc = e]
    /\ pc' = [pc EXCEPT ![p] = "vc_sdk_failed"]

\* The same, after the locals of the frame have become frame.
SdkRaiseFrom(p, frame, e) ==
    /\ vc' = [frame EXCEPT ![p].exc = e]
    /\ pc' = [pc EXCEPT ![p] = "vc_sdk_failed"]

\* A call extract_runner(tarball_path, runner_type, hash_val) made by
\* extract_sdk_paths, which goes on at cont when the call is over.
CallExtract(p, runner_type, hash_val, cont) ==
    /\ er' = [er EXCEPT ![p] = ErFrame(vc[p].tarball_path, runner_type, hash_val, cont)]
    /\ pc' = [pc EXCEPT ![p] = "er_check"]

\* find_latest_runner on the bundle file as it is in the cache now.
LatestRunnerOf(tarball_path, runner_type) ==
    IF Readable(files[tarball_path])
    THEN FindLatestRunner(MemberNamesOf(files[tarball_path]), runner_type)
    ELSE Raise("ReadError")

StartValidate(p, c) ==
    /\ pc[p] = "idle"
    /\ op' = [op EXCEPT ![p] = [name |-> "validate_contract", contract |-> c]]
    /\ vc' = [vc EXCEPT ![p] = [NoVc EXCEPT !.contract = c]]
    /\ pc' = [pc EXCEPT ![p] = "vc_exists"]
    /\ UNCHANGED <<outcome, dl, er, pureVars, sysVars, fsVars, netVars, histVars>>

\* validator.py lines 54-60
VcExists(p) ==
    /\ pc[p] = "vc_exists"
    /\ IF Contract(vc[p].contract).exists
       THEN /\ vc' = [vc EXCEPT ![p].stages = Append(@, Stage("exists", TRUE))]
            /\ pc' = [pc EXCEPT ![p] = "ls_parse"]
            /\ UNCHANGED outcome
       ELSE VcReturn(p, "exists", FALSE,
                     Failure(Error("E100", <<"Contract not found: ", vc[p].contract>>)))
    /\ UNCHANGED <<op, dl, er, pureVars, sysVars, fsVars, netVars, histVars>>

\* sdk_loader.py line 125: parse_contract_header reads the file.
LsParseHeader(p) ==
    /\ pc[p] = "ls_parse"
    /\ IF Contract(vc[p].contract).readable
       THEN /\ vc' = [vc EXCEPT ![p].sdk_steps = Append(@, "parse_contract_header"),
                                ![p].dependencies = Contract(vc[p].contract).header]
            /\ pc' = [pc EXCEPT ![p] = "ls_download"]
       ELSE /\ vc' = [vc EXCEPT ![p].sdk_steps = Append(@, "parse_contract_header"),
                                ![p].exc = "UnicodeDecodeError"]
            /\ pc' = [pc EXCEPT ![p] = "vc_sdk_failed"]
    /\ UNCHANGED <<op, outcome, dl, er, pureVars, sysVars, fsVars, netVars, histVars>>

\* sdk_loader.py line 128: download_artifacts(progress_callback=...)
LsDownload(p) ==
    /\ pc[p] = "ls_download"
    /\ vc' = [vc EXCEPT ![p].sdk_steps = Append(@, "download_artifacts")]
    /\ dl' = [dl EXCEPT ![p] = [NoDl EXCEPT !.cont = "load_sdk"]]
    /\ pc' = [pc EXCEPT ![p] = "dl_resolve"]
    /\ UNCHANGED <<op, outcome, er, pureVars, sysVars, fsVars, netVars, histVars>>

\* sdk_loader.py lines 128-131: tarball_path is bound, extract_sdk_paths
\* is entered.
LsDownloaded(p) ==
    /\ pc[p] = "ls_downloaded"
    /\ IF dl[p].result.tag = "raise"
       THEN SdkRaise(p, dl[p].result.exc)
       ELSE /\ vc' = [vc EXCEPT ![p].tarball_path = dl[p].result.val,
                                ![p].sdk_steps = Append(@, "extract_sdk_paths")]
            /\ pc' = [pc EXCEPT ![p] = "xs_resolve"]
    /\ UNCHANGED <<op, outcome, dl, er, pureVars, sysVars, fsVars, netVars, histVars>>

\* sdk_loader.py lines 72-82: the py-genlayer runner.
XsResolve_AlwaysLatest(p) ==
    /\ pc[p] = "xs_resolve"
    /\ LET genlayer_hash == LatestRunnerOf(vc[p].tarball_path, PyGenlayer)
           looked == [vc EXCEPT ![p].lookups = @ \cup {PyGenlayer}]
       IN IF genlayer_hash.tag = "raise"
          THEN SdkRaiseFrom(p, looked, genlayer_hash.exc) /\ UNCHANGED er
          ELSE IF genlayer_hash.tag = "none"
          THEN SdkRaiseFrom(p, looked, "RuntimeError") /\ UNCHANGED er
          ELSE /\ CallExtract(p, PyGenlayer, genlayer_hash.val, "xs_manifest")
               /\ vc' = looked
    /\ UNCHANGED <<op, outcome, dl, pureVars, sysVars, fsVars, netVars, histVars>>

XsResolve(p) ==
    /\ pc[p] = "xs_resolve"
    /\ IF PyGenlayer \in DOMAIN vc[p].dependencies
       THEN /\ CallExtract(p, PyGenlayer, vc[p].dependencies[PyGenlayer], "xs_manifest")
            /\ UNCHANGED vc
       ELSE LET genlayer_hash == LatestRunnerOf(vc[p].tarball_path, PyGenlayer)
                looked == [vc EXCEPT ![p].lookups = @ \cup {PyGenlayer}]
            IN IF genlayer_hash.tag = "raise"
               THEN SdkRaiseFrom(p, looked, genlayer_hash.exc) /\ UNCHANGED er
               ELSE IF genlayer_hash.tag = "none" \/ genlayer_hash.val = <<>>
               THEN SdkRaiseFrom(p, looked, "RuntimeError") /\ UNCHANGED er
               ELSE /\ CallExtract(p, PyGenlayer, genlayer_hash.val, "xs_manifest")
                    /\ vc' = looked
    /\ UNCHANGED <<op, outcome, dl, pureVars, sysVars, fsVars, netVars, histVars>>

\* sdk_loader.py lines 82-92: the manifest of the runner pins
\* py-lib-genlayer-std.
XsManifest_FallbackToLatest(p) ==
    /\ pc[p] = "xs_manifest"
    /\ IF er[p].result.tag = "raise"
       THEN SdkRaise(p, er[p].result.exc) /\ UNCHANGED er
       ELSE LET runner_deps == ParseRunnerManifest(dirs[er[p].result.val])
                bound == [vc EXCEPT ![p].runner_path = er[p].result.val]
            IN IF runner_deps.tag = "raise"
               THEN SdkRaiseFrom(p, bound, runner_deps.exc) /\ UNCHANGED er
               ELSE LET parsed == [bound EXCEPT ![p].runner_deps = Some(runner_deps.val)]
                        std_hash == LatestRunnerOf(vc[p].tarball_path, PyLibStd)
                    IN IF PyLibStd \in DOMAIN runner_deps.val
                       THEN /\ CallExtract(p, PyLibStd, runner_deps.val[PyLibStd], "xs_proto")
                            /\ vc' = parsed
                       ELSE IF std_hash.tag = "return"
                       THEN /\ CallExtract(p, PyLibStd, std_hash.val, "xs_proto")
                            /\ vc' = [parsed EXCEPT ![p].lookups = @ \cup {PyLibStd}]
                       ELSE SdkRaiseFrom(p, parsed, "RuntimeError") /\ UNCHANGED er
    /\ UNCHANGED <<op, outcome, dl, pureVars, sysVars, fsVars, netVars, histVars>>

XsManifest(p) ==
    /\ pc[p] = "xs_manifest"
    /\ IF er[p].result.tag = "raise"
       THEN SdkRaise(p, er[p].result.exc) /\ UNCHANGED er
       ELSE LET runner_deps == ParseRunnerManifest(dirs[er[p].result.val])
                bound == [vc EXCEPT ![p].runner_path = er[p].result.val]
            IN IF runner_deps.tag = "raise"
               THEN SdkRaiseFrom(p, bound, runner_deps.exc) /\ UNCHANGED er
               ELSE LET parsed == [bound EXCEPT ![p].runner_deps = Some(runner_deps.val)]
                    IN IF PyLibStd \notin DOMAIN runner_deps.val
                       THEN SdkRaiseFrom(p, parsed, "RuntimeError") /\ UNCHANGED er
                       ELSE /\ CallExtract(p, PyLibStd, runner_deps.val[PyLibStd], "xs_proto")
                            /\ vc' = parsed
    /\ UNCHANGED <<op, outcome, dl, pureVars, sysVars, fsVars, netVars, histVars>>

\* sdk_loader.py lines 92-98: py-lib-protobuf, if the bundle holds one.
XsProto(p) ==
    /\ pc[p] = "xs_proto"
    /\ IF er[p].result.tag = "raise"
       THEN SdkRaise(p, er[p].result.exc) /\ UNCHANGED er
       ELSE LET proto_hash == LatestRunnerOf(vc[p].tarball_path, PyLibProtobuf)
                looked == [vc EXCEPT ![p].sdk_paths = Append(@, er[p].result.val),
                                     ![p].lookups = @ \cup {PyLibProtobuf}]
            IN IF proto_hash.tag = "raise"
               THEN SdkRaiseFrom(p, looked, proto_hash.exc) /\ UNCHANGED er
               ELSE IF proto_hash.tag = "none" \/ proto_hash.val = <<>>
               THEN /\ vc' = looked
                    /\ pc' = [pc EXCEPT ![p] = "xs_emb"]
                    /\ UNCHANGED er
               ELSE /\ vc' = looked
                    /\ CallExtract(p, PyLibProtobuf, proto_hash.val, "xs_proto_done")
    /\ UNCHANGED <<op, outcome, dl, pureVars, sysVars, fsVars, netVars, histVars>>

\* sdk_loader.py lines 98-99
XsProtoDone(p) ==
    /\ pc[p] = "xs_proto_done"
    /\ IF er[p].result.tag = "raise"
       THEN SdkRaise(p, er[p].result.exc)
       ELSE /\ vc' = [vc EXCEPT ![p].sdk_paths = Append(@, er[p].result.val)]
            /\ pc' = [pc EXCEPT ![p] = "xs_emb"]
    /\ UNCHANGED <<op, outcome, dl, er, pureVars, sysVars, fsVars, netVars, histVars>>

\* sdk_loader.py lines 102-104: embeddings, if the header names it.
XsEmb(p) ==
    /\ pc[p] = "xs_emb"
    /\ IF PyLibEmbeddings \in DOMAIN vc[p].dependencies
       THEN CallExtract(p, PyLibEmbeddings, vc[p].dependencies[PyLibEmbeddings],
                        "xs_emb_done")
       ELSE /\ pc' = [pc EXCEPT ![p] = "ls_numpy"]
            /\ UNCHANGED er
    /\ UNCHANGED <<op, outcome, dl, vc, pureVars, sysVars, fsVars, netVars, histVars>>

\* sdk_loader.py lines 104-107
XsEmbDone(p) ==
    /\ pc[p] = "xs_emb_done"
    /\ IF er[p].result.tag = "raise"
       THEN SdkRaise(p, er[p].result.exc)
       ELSE /\ vc' = [vc EXCEPT ![p].sdk_paths = Append(@, er[p].result.val)]
            /\ pc' = [pc EXCEPT ![p] = "ls_numpy"]
    /\ UNCHANGED <<op, outcome, dl, er, pureVars, sysVars, fsVars, netVars, histVars>>

\* sdk_loader.py line 135: import numpy, which is installed or is not.
LsImportNumpy(p) ==
    /\ pc[p] = "ls_numpy"
    /\ \/ /\ vc' = [vc EXCEPT ![p].sdk_steps = Append(@, "import numpy")]
          /\ pc' = [pc EXCEPT ![p] = "ls_sandbox"]
       \/ /\ vc' = [vc EXCEPT ![p].sdk_steps = Append(@, "import numpy"),
                              ![p].exc = "ImportError"]
          /\ pc' = [pc EXCEPT ![p] = "vc_sdk_failed"]
    /\ UNCHANGED <<op, outcome, dl, er, pureVars, sysVars, fsVars, netVars, histVars>>

\* sdk_loader.py lines 48-57: the mock setup_wasi_mocks registers.
WasiMock_BalanceOne ==
    [storage_read |-> "None", storage_write |-> "None", get_balance |-> 1,
     get_self_balance |-> 1, gl_call |-> 0]

WasiMock ==
    [storage_read |-> "None", storage_write |-> "None", get_balance |-> 0,
     get_self_balance |-> 0, gl_call |-> 0]

\* sdk_loader.py line 142: path / "src" if it exists, else path.
SrcPath(path) ==
    IF \E e \in dirs[path].entries : e[1] = "src" THEN <<path, "src">> ELSE <<path>>

\* sdk_loader.py lines 141-143: for path in reversed(sdk_paths):
\* sys.path.insert(0, src_path)
RECURSIVE InsertForward(_, _)
InsertForward(sdk_paths, sys_path) ==
    IF sdk_paths = <<>> THEN sys_path
    ELSE InsertForward(Tail(sdk_paths), <<SrcPath(Head(sdk_paths))>> \o sys_path)

RECURSIVE InsertReversed(_, _)
InsertReversed(sdk_paths, sys_path) ==
    IF sdk_paths = <<>> THEN sys_path
    ELSE InsertReversed(SubSeq(sdk_paths, 1, Len(sdk_paths) - 1),
                        <<SrcPath(sdk_paths[Len(sdk_paths)])>> \o sys_path)

\* An entry of sys.path under which the package genlayer with
\* genlayer/py/get_schema.py is found: the src directory of a
\* py-lib-genlayer-std component that ships it.
Provides(entry) == Len(entry) = 2 /\ <<"src", "std">> \in dirs[entry[1]].entries

\* sdk_loader.py lines 138-143: setup_wasi_mocks, and the component paths
\* are put on sys.path.
LsSandbox(p) ==
    /\ pc[p] = "ls_sandbox"
    /\ vc' = [vc EXCEPT ![p].sdk_steps = Append(@, "setup_wasi_mocks")]
    /\ sys' = [sys EXCEPT ![p].wasi = Some(WasiMock),
                          ![p].generating_docs = Some("true"),
                          ![p].path = InsertReversed(vc[p].sdk_paths, @)]
    /\ pc' = [pc EXCEPT ![p] = "ls_import"]
    /\ UNCHANGED <<op, outcome, dl, er, pureVars, fsVars, netVars, histVars>>

\* sdk_loader.py lines 146-148: from genlayer.py.get_schema import
\* get_schema: the module already in sys.modules, else the first entry of
\* sys.path that provides it, else ImportError.
LsImportGetSchema(p) ==
    /\ pc[p] = "ls_import"
    /\ LET found == {i \in 1..Len(sys[p].path) : Provides(sys[p].path[i])}
       IN IF sys[p].get_schema # NoneV \/ found # {}
          THEN /\ vc' = [vc EXCEPT ![p].sdk_steps = Append(@, "import get_schema"),
                                   ![p].stages = Append(@, Stage("load_sdk", TRUE))]
               /\ sys' = [sys EXCEPT ![p].get_schema =
                              IF @ # NoneV THEN @
                              ELSE Some(sys[p].path[CHOOSE i \in found :
                                                        \A j \in found : i <= j])]
               /\ pc' = [pc EXCEPT ![p] = "vc_load_module"]
          ELSE /\ vc' = [vc EXCEPT ![p].sdk_steps = Append(@, "import get_schema"),
                                   ![p].exc = "ImportError"]
               /\ pc' = [pc EXCEPT ![p] = "vc_sdk_failed"]
               /\ UNCHANGED sys
    /\ UNCHANGED <<op, outcome, dl, er, pureVars, fsVars, netVars, histVars>>

\* validator.py lines 65-69
VcSdkFailed(p) ==
    /\ pc[p] = "vc_sdk_failed"
    /\ VcReturn(p, "load_sdk", FALSE,
                Failure(Error("E101", <<"Failed to load SDK: ", vc[p].exc>>)))
    /\ UNCHANGED <<op, dl, er, pureVars, sysVars, fsVars, netVars, histVars>>

\* validator.py lines 71-94: load_contract_module registers the module as
\* sys.modules["contract"] (sdk_loader.py line 158) and executes the file.
VcLoadModule_NoShortCircuit(p) ==
    /\ pc[p] = "vc_load_module"
    /\ vc' = [vc EXCEPT ![p].module = Contract(vc[p].contract).namespace,
                        ![p].stages = Append(@, Stage("load_contract_module",
                                                      Contract(vc[p].contract).load.tag = "ok"))]
    /\ pc' = [pc EXCEPT ![p] = "vc_find_class"]
    /\ sys' = [sys EXCEPT ![p].contract = Some(vc[p].contract)]
    /\ UNCHANGED <<outcome, op, dl, er, pureVars, fsVars, netVars, histVars>>

VcLoadModule(p) ==
    /\ pc[p] = "vc_load_module"
    /\ LET load == Contract(vc[p].contract).load
       IN IF load.tag = "ok"
          THEN /\ vc' = [vc EXCEPT ![p].module = Contract(vc[p].contract).namespace,
                                   ![p].stages = Append(@, Stage("load_contract_module", TRUE))]
               /\ pc' = [pc EXCEPT ![p] = "vc_find_class"]
               /\ UNCHANGED outcome
          ELSE IF load.tag = "SyntaxError"
          THEN VcReturn(p, "load_contract_module", FALSE,
                        Failure(ErrorAt("E102", <<"Syntax error: ", load.msg>>, load.lineno)))
          ELSE IF load.tag = "ImportError"
          THEN VcReturn(p, "load_contract_module", FALSE,
                        Failure(Error("E103", <<"Import error: ", load.tag>>)))
          ELSE VcReturn(p, "load_contract_module", FALSE,
                        Failure(Error("E104", <<"Failed to load contract: ", load.tag>>)))
    /\ sys' = [sys EXCEPT ![p].contract = Some(vc[p].contract)]
    /\ UNCHANGED <<op, dl, er, pureVars, fsVars, netVars, histVars>>

\* validator.py lines 96-102: find_contract_class is called outside any
\* try block.
VcFindClass(p) ==
    /\ pc[p] = "vc_find_class"
    /\ LET contract_class == FindContractClass(vc[p].module)
       IN IF contract_class.tag = "raise"
          THEN /\ vc' = [vc EXCEPT ![p].stages = Append(@, Stage("find_contract_class", FALSE))]
               /\ outcome' = [outcome EXCEPT ![p] = contract_class]
               /\ pc' = [pc EXCEPT ![p] = "done"]
          ELSE IF contract_class.tag = "none"
          THEN VcReturn(p, "find_contract_class", FALSE,
                        Failure(Error("E105", <<"No contract class found">>)))
          ELSE /\ vc' = [vc EXCEPT ![p].contract_class = Some(contract_class.val),
                                   ![p].stages = Append(@, Stage("find_contract_class", TRUE))]
               /\ pc' = [pc EXCEPT ![p] = "vc_get_schema"]
               /\ UNCHANGED outcome
    /\ UNCHANGED <<op, dl, er, pureVars, sysVars, fsVars, netVars, histVars>>

\* validator.py lines 104-131: get_schema(contract_class) of the SDK.
VcGetSchema(p) ==
    /\ pc[p] = "vc_get_schema"
    /\ LET contract_class == vc[p].contract_class[1]
           schema == contract_class.reflect
       IN IF schema.tag = "return"
          THEN /\ vc' = [vc EXCEPT ![p].schema = Some(schema.val),
                                   ![p].stages = Append(@, Stage("get_schema", TRUE))]
               /\ outcome' = [outcome EXCEPT ![p] =
                                  Return(Success(contract_class, schema.val))]
               /\ pc' = [pc EXCEPT ![p] = "done"]
          ELSE IF schema.exc = "TypeError"
          THEN LET error == Error("E106", <<"Type error: ">> \o schema.msg)
                   line == SearchLine(schema.msg)
               IN VcReturn(p, "get_schema", FALSE,
                           Failure(IF line # NoneV
                                   THEN ErrorAt("E106", error.msg, line[1])
                                   ELSE error))
          ELSE VcReturn(p, "get_schema", FALSE,
                        Failure(Error("E107", <<"Schema extraction failed: ">> \o schema.msg)))
    /\ UNCHANGED <<op, dl, er, pureVars, sysVars, fsVars, netVars, histVars>>

LoadSdkStep(p) ==
    \/ LsParseHeader(p)
    \/ LsDownload(p)
    \/ LsDownloaded(p)
    \/ XsResolve(p)
    \/ XsManifest(p)
    \/ XsProto(p)
    \/ XsProtoDone(p)
    \/ XsEmb(p)
    \/ XsEmbDone(p)
    \/ LsImportNumpy(p)
    \/ LsSandbox(p)
    \/ LsImportGetSchema(p)

ValidateStep(p) ==
    \/ VcExists(p)
    \/ VcSdkFailed(p)
    \/ VcLoadModule(p)
    \/ VcFindClass(p)
    \/ VcGetSchema(p)

\* The entry point has returned or raised; the invocation is over and its
\* process ends.
Finish(p) ==
    /\ pc[p] = "done"
    /\ pc' = [pc EXCEPT ![p] = "idle"]
    /\ op' = [op EXCEPT ![p] = NoOp]
    /\ outcome' = [outcome EXCEPT ![p] = Pending]
    /\ dl' = [dl EXCEPT ![p] = NoDl]
    /\ er' = [er EXCEPT ![p] = NoEr]
    /\ vc' = [vc EXCEPT ![p] = NoVc]
    /\ sys' = [sys EXCEPT ![p] = NoSys]
    /\ UNCHANGED <<pureVars, fsVars, netVars, histVars>>

\* The entry point has returned or raised, and the same process calls an
\* entry point again: the interpreter stays as it is.
Again(p) ==
    /\ pc[p] = "done"
    /\ Len(sys[p].path) < MaxSysPath
    /\ pc' = [pc EXCEPT ![p] = "idle"]
    /\ op' = [op EXCEPT ![p] = NoOp]
    /\ outcome' = [outcome EXCEPT ![p] = Pending]
    /\ dl' = [dl EXCEPT ![p] = NoDl]
    /\ er' = [er EXCEPT ![p] = NoEr]
    /\ vc' = [vc EXCEPT ![p] = NoVc]
    /\ UNCHANGED <<pureVars, sysVars, fsVars, netVars, histVars>>

DownloadStep(p) ==
    \/ DlResolve(p)
    \/ DlCheck(p)
    \/ DlRetrieveOpen(p)
    \/ DlRetrieveTransfer(p)
    \/ DlExcept(p)

(***************************************************************************)
(* cli.py: the commands of genvm-lint.  The frame of a command is kept in  *)
(* op; status is the exit status of the process once it has exited.        *)
(***************************************************************************)
ContractCommands == {"lint", "validate", "check", "schema"}
Commands == ContractCommands \cup {"download"}

CliOp(command, contract, version, list_versions) ==
    [name |-> "cli", command |-> command, contract |-> contract, version |-> version,
     list_versions |-> list_versions, lint_ok |-> TRUE, linted |-> FALSE,
     uncaught |-> "", resolve_failed |-> FALSE, status |-> NoneV]

\* sys.exit(status), or the end of the process after an uncaught exception
\* (status 1) or a usage error reported by click (status 2).
Exit(p, frame, status) ==
    /\ op' = [op EXCEPT ![p] = [frame EXCEPT !.status = Some(status)]]
    /\ pc' = [pc EXCEPT ![p] = "exited"]

StartCli(p, command, contract, version, list_versions) ==
    /\ pc[p] = "idle"
    /\ op' = [op EXCEPT ![p] = CliOp(command, contract, version, list_versions)]
    /\ pc' = [pc EXCEPT ![p] = "cli_args"]
    /\ UNCHANGED <<outcome, dl, er, vc, pureVars, sysVars, fsVars, netVars, histVars>>

\* click parses the arguments: click.Path(exists=True) rejects a contract
\* path that does not exist (lines 108, 138, 153, 171); download --list
\* returns at line 212.
CliParseArgs(p) ==
    /\ pc[p] = "cli_args"
    /\ IF op[p].command \in ContractCommands
       THEN IF ~Contract(op[p].contract).exists
            THEN Exit(p, op[p], 2)
            ELSE /\ pc' = [pc EXCEPT ![p] =
                              IF op[p].command \in {"lint", "check"}
                              THEN "cli_lint" ELSE "cli_validate"]
                 /\ UNCHANGED op
       ELSE IF op[p].list_versions
            THEN Exit(p, op[p], 0)
            ELSE /\ pc' = [pc EXCEPT ![p] =
                              IF op[p].version = None THEN "cli_resolve" ELSE "cli_download"]
                 /\ UNCHANGED op
    /\ UNCHANGED <<outcome, dl, er, vc, pureVars, sysVars, fsVars, netVars, histVars>>

\* lines 115 and 142: lint_contract(contract_path).  A file that cannot be
\* read raises out of the command; a file with a syntax error has the
\* warning E001; else the checks of the linter warn or do not.
CliLint(p) ==
    /\ pc[p] = "cli_lint"
    /\ IF ~Contract(op[p].contract).readable
       THEN Exit(p, [op[p] EXCEPT !.uncaught = "UnicodeDecodeError"], 1)
       ELSE \E ok \in BOOLEAN :
               /\ Contract(op[p].contract).load.tag = "SyntaxError" => ~ok
               /\ LET linted == [op[p] EXCEPT !.lint_ok = ok, !.linted = TRUE]
                  IN IF op[p].command = "lint"
                     THEN Exit(p, linted, IF ok THEN 0 ELSE 1)
                     ELSE /\ op' = [op EXCEPT ![p] = linted]
                          /\ pc' = [pc EXCEPT ![p] = "cli_validate"]
    /\ UNCHANGED <<outcome, dl, er, vc, pureVars, sysVars, fsVars, netVars, histVars>>

\* lines 119, 158, 177: validate_contract(contract_path, ...)
CliValidate(p) ==
    /\ pc[p] = "cli_validate"
    /\ vc' = [vc EXCEPT ![p] = [NoVc EXCEPT !.contract = op[p].contract]]
    /\ pc' = [pc EXCEPT ![p] = "vc_exists"]
    /\ UNCHANGED <<op, outcome, dl, er, pureVars, sysVars, fsVars, netVars, histVars>>

\* lines 134, 167, 181-196: the exit status after validate_contract; an
\* exception it raised is caught nowhere.
CliAfterValidate(p) ==
    /\ pc[p] = "done"
    /\ op[p].name = "cli"
    /\ op[p].command \in {"validate", "check", "schema"}
    /\ IF outcome[p].tag = "raise"
       THEN Exit(p, [op[p] EXCEPT !.uncaught = outcome[p].exc], 1)
       ELSE IF op[p].command = "check"
       THEN Exit(p, op[p], IF op[p].lint_ok /\ outcome[p].val.ok THEN 0 ELSE 1)
       ELSE Exit(p, op[p], IF outcome[p].val.ok THEN 0 ELSE 1)
    /\ UNCHANGED <<outcome, dl, er, vc, pureVars, sysVars, fsVars, netVars, histVars>>

\* lines 214-217: version = get_latest_version(), outside the try block.
CliResolve(p) ==
    /\ pc[p] = "cli_resolve"
    /\ \/ /\ op' = [op EXCEPT ![p].version = latest_release]
          /\ pc' = [pc EXCEPT ![p] = "cli_download"]
       \/ Exit(p, [op[p] EXCEPT !.uncaught = "URLError", !.resolve_failed = TRUE], 1)
    /\ UNCHANGED <<outcome, dl, er, vc, pureVars, sysVars, fsVars, netVars, histVars>>

\* lines 228-229: download_artifacts(version, progress_callback=progress)
CliDownload(p) ==
    /\ pc[p] = "cli_download"
    /\ dl' = [dl EXCEPT ![p] = [NoDl EXCEPT !.arg = op[p].version]]
    /\ pc' = [pc EXCEPT ![p] = "dl_resolve"]
    /\ UNCHANGED <<op, outcome, er, vc, pureVars, sysVars, fsVars, netVars, histVars>>

\* lines 230-235: the path is printed and the command returns, or the
\* exception is reported and the status is 3.
CliAfterDownload(p) ==
    /\ pc[p] = "done"
    /\ op[p].name = "cli"
    /\ op[p].command = "download"
    /\ Exit(p, op[p], IF outcome[p].tag = "raise" THEN 3 ELSE 0)
    /\ UNCHANGED <<outcome, dl, er, vc, pureVars, sysVars, fsVars, netVars, histVars>>

\* The process is gone; the cache stays.
CliFinish(p) ==
    /\ pc[p] = "exited"
    /\ pc' = [pc EXCEPT ![p] = "idle"]
    /\ op' = [op EXCEPT ![p] = NoOp]
    /\ outcome' = [outcome EXCEPT ![p] = Pending]
    /\ dl' = [dl EXCEPT ![p] = NoDl]
    /\ er' = [er EXCEPT ![p] = NoEr]
    /\ vc' = [vc EXCEPT ![p] = NoVc]
    /\ sys' = [sys EXCEPT ![p] = NoSys]
    /\ UNCHANGED <<pureVars, fsVars, netVars, histVars>>

CliStep(p) ==
    \/ CliParseArgs(p)
    \/ CliLint(p)
    \/ CliValidate(p)
    \/ CliAfterValidate(p)
    \/ CliResolve(p)
    \/ CliDownload(p)
    \/ CliAfterDownload(p)

(***************************************************************************)
(* Inputs of the pure helpers.                                             *)
(***************************************************************************)
HashChars == {"0", "a"}

RECURSIVE SeqsUpTo(_, _)
SeqsUpTo(S, n) ==
    IF n = 0 THEN {<<>>}
    ELSE LET shorter == SeqsUpTo(S, n - 1)
         IN shorter \cup {Append(s, x) : s \in shorter, x \in S}

Hashes == SeqsUpTo(HashChars, MaxHashLen)

PureTypes == {PyGenlayer, PyLibStd}

\* Names a release bundle holds: runner archives in the layout of the
\* release, and the directory entries above them.
LayoutHashes == {<<"0", "a">>, <<"a", "0">>, <<"a", "a", "0">>}
MemberNames ==
    {HashToTarPath(t, h) : t \in PureTypes, h \in LayoutHashes}
        \cup {RunnersSlash \o PyGenlayer, RunnersSlash \o PyGenlayer \o <<"/", "a", "0">>}

MemberLists == SeqsUpTo(MemberNames, MaxMembers)

HashCalls ==
    {[fn |-> "hash_to_tar_path", runner_type |-> t, hash_val |-> h] :
        t \in PureTypes, h \in Hashes}

LatestCalls ==
    {[fn |-> "find_latest_runner", members |-> m, runner_type |-> t] :
        m \in MemberLists, t \in PureTypes}

InitPure ==
    /\ call \in HashCalls \cup LatestCalls
    /\ ret = Pending
    /\ InitCache
    /\ InitProcs

CallHashToTarPath ==
    /\ ret = Pending
    /\ call.fn = "hash_to_tar_path"
    /\ ret' = Return(HashToTarPath(call.runner_type, call.hash_val))
    /\ UNCHANGED <<call, fsVars, netVars, procVars, histVars, sysVars>>

CallFindLatestRunner ==
    /\ ret = Pending
    /\ call.fn = "find_latest_runner"
    /\ ret' = FindLatestRunner(call.members, call.runner_type)
    /\ UNCHANGED <<call, fsVars, netVars, procVars, histVars, sysVars>>

NextPure ==
    \/ CallHashToTarPath
    \/ CallFindLatestRunner

SpecPure == InitPure /\ [][NextPure]_vars

(***************************************************************************)
(* SpecHeader: parse_contract_header on contract files whose leading       *)
(* comment block holds the dependency JSON, wrapped in every way JSON      *)
(* allows (a line break between any two JSON tokens), followed or not by   *)
(* more lines.                                                             *)
(***************************************************************************)
HeaderNames == {"py-genlayer", "py-lib-genlayer-embeddings"}
HeaderHashes == {"a0g", "0ae"}
TailHash == "tail"

DependsEntry(name, hash_val) == [name |-> name, hash_val |-> hash_val]

\* The Depends entries a header declares: up to MaxEntries, of different names.
EntryLists ==
    {es \in SeqsUpTo({DependsEntry(n, h) : n \in HeaderNames, h \in HeaderHashes}, MaxEntries) :
        \A i, j \in 1..Len(es) : i # j => es[i].name # es[j].name}

\* A JSON token as text, and whether the formatter writes the next token
\* right after it (a key and its colon) or after a space.
Json(text, tight) == [text |-> text, tight |-> tight]

EntryJson(e) ==
    <<Json(<<"{">>, FALSE), Json(<<Quote, "Depends", Quote>>, TRUE), Json(<<":">>, FALSE),
      Json(<<Quote, e.name, ":", e.hash_val, Quote>>, FALSE), Json(<<"}">>, FALSE)>>

RECURSIVE EntriesJson(_)
EntriesJson(es) ==
    IF es = <<>> THEN <<>>
    ELSE IF Len(es) = 1 THEN EntryJson(es[1])
    ELSE EntryJson(es[1]) \o <<Json(<<",">>, FALSE)>> \o EntriesJson(Tail(es))

HeaderJson(es) ==
    <<Json(<<"{">>, FALSE), Json(<<Quote, "Seq", Quote>>, TRUE), Json(<<":">>, FALSE),
      Json(<<"[">>, FALSE)>>
        \o EntriesJson(es) \o <<Json(<<"]">>, FALSE), Json(<<"}">>, FALSE)>>

\* The comment block: every line starts with prefix, and the gaps in
\* breaks are line breaks.
RECURSIVE LayoutFrom(_, _, _, _)
LayoutFrom(json, i, breaks, prefix) ==
    IF i > Len(json) THEN <<>>
    ELSE json[i].text
           \o (IF i = Len(json) THEN <<>>
               ELSE IF i \in breaks THEN <<NL>> \o prefix
               ELSE IF json[i].tight THEN <<>>
               ELSE <<" ">>)
           \o LayoutFrom(json, i + 1, breaks, prefix)

Layout(json, breaks, prefix) == prefix \o LayoutFrom(json, 1, breaks, prefix)

Prefixes == {<<"#", " ">>, <<"#">>}

BreakSets(json) ==
    {b \in SUBSET (1..(Len(json) - 1)) : Cardinality(b) <= MaxBreaks}

\* What follows the comment block: nothing, or a first line that is not a
\* comment and then a Depends entry, in a comment or in the code.
TailEntry == Layout(EntryJson(DependsEntry("py-genlayer", TailHash)), {}, <<"#", " ">>)
Tails ==
    [none |-> <<>>,
     blank |-> <<NL, NL>> \o TailEntry,
     code |-> <<NL, "import", " ", "genlayer", NL>> \o TailEntry \o <<NL>>,
     literal |-> <<NL, "deps", " ", "=", " ">> \o Drop(TailEntry, 2)]

HeaderCalls ==
    UNION {{[fn |-> "parse_contract_header", entries |-> es, breaks |-> b, tail |-> t,
             content |-> Layout(HeaderJson(es), b, prefix) \o Tails[t]] :
               b \in BreakSets(HeaderJson(es)), prefix \in Prefixes, t \in DOMAIN Tails} :
           es \in EntryLists}

InitHeader ==
    /\ call \in HeaderCalls
    /\ ret = Pending
    /\ InitCache
    /\ InitProcs

CallParseContractHeader ==
    /\ ret = Pending
    /\ call.fn = "parse_contract_header"
    /\ ret' = Return(ParseContractHeader(call.content))
    /\ UNCHANGED <<call, fsVars, netVars, procVars, histVars, sysVars>>

NextHeader == CallParseContractHeader

SpecHeader == InitHeader /\ [][NextHeader]_vars

(***************************************************************************)
(* SpecLint: lint_contract on a contract file that exists or not, whose    *)
(* leading comment block is one of LintHeaders, whose code is one of       *)
(* LintBodies, and that parses or not.                                     *)
(***************************************************************************)
HeaderPrefix == <<"#", " ">>

\* full and wrapped declare py-genlayer inside "Seq"; other declares only the
\* embeddings library; bare is the one-entry header of
\* tests/integration/test-init-valid.py; none is no comment at all.
LintHeaders ==
    [full |-> Layout(HeaderJson(<<DependsEntry("py-genlayer", "a0g")>>), {}, HeaderPrefix),
     wrapped |-> Layout(HeaderJson(<<DependsEntry("py-lib-genlayer-embeddings", "0ae"),
                                     DependsEntry("py-genlayer", "a0g")>>),
                        {4, 10}, HeaderPrefix),
     other |-> Layout(HeaderJson(<<DependsEntry("py-lib-genlayer-embeddings", "0ae")>>),
                      {}, HeaderPrefix),
     bare |-> Layout(EntryJson(DependsEntry("py-genlayer", "test")), {}, HeaderPrefix),
     none |-> <<>>]

LintBodies ==
    [clean |-> <<CallNode(<<"gl", "public">>, 4)>>,
     allowed |-> <<ImportNode(<<<<"urllib", "parse">>, <<"json">>>>, 2)>>,
     os |-> <<ImportNode(<<<<"json">>, <<"os", "path">>>>, 2)>>,
     random |-> <<ImportFromNode(<<"random">>, 3)>>,
     relative |-> <<ImportFromNode(<<>>, 3)>>,
     clock |-> <<CallNode(<<"time", "time">>, 5)>>,
     float |-> <<CallNode(<<"float">>, 6)>>,
     several |-> <<ImportNode(<<<<"os">>>>, 2), CallNode(<<"float">>, 6)>>]

\* lineno of the SyntaxError of ast.parse, 0 when it has none.
SyntaxErrors == {NoneV, Some(0), Some(3)}

LintFile(exists, header, body, syntax) ==
    [fn |-> "lint_contract", exists |-> exists, header |-> header, code |-> body,
     content |-> LintHeaders[header] \o <<NL, "from", " ", "genlayer", " ", "import", " ", "*">>,
     body |-> LintBodies[body], syntax |-> syntax]

LintCalls ==
    {LintFile(e, h, b, s) : e \in BOOLEAN, h \in DOMAIN LintHeaders,
                            b \in DOMAIN LintBodies, s \in SyntaxErrors}

InitLint ==
    /\ call \in LintCalls
    /\ ret = Pending
    /\ InitCache
    /\ InitProcs

CallLintContract ==
    /\ ret = Pending
    /\ call.fn = "lint_contract"
    /\ ret' = Return(LintContract(call))
    /\ UNCHANGED <<call, fsVars, netVars, procVars, histVars, sysVars>>

NextLint == CallLintContract

SpecLint == InitLint /\ [][NextLint]_vars

(***************************************************************************)
(* SpecAgree: check_structure and parse_contract_header on the same        *)
(* source, which has one of the headers of SpecHeader or, as               *)
(* tests/integration/test-init-valid.py has, a single Depends entry that   *)
(* is not inside "Seq".                                                    *)
(***************************************************************************)
BareCalls ==
    UNION {{[fn |-> "parse_contract_header", entries |-> es, breaks |-> b, tail |-> t,
             content |-> Layout(EntryJson(es[1]), b, prefix) \o Tails[t]] :
               b \in BreakSets(EntryJson(es[1])), prefix \in Prefixes, t \in DOMAIN Tails} :
           es \in {l \in EntryLists : Len(l) = 1}}

AgreeCalls == HeaderCalls \cup BareCalls

InitAgree ==
    /\ call \in AgreeCalls
    /\ ret = Pending
    /\ InitCache
    /\ InitProcs

\* check_structure(source), its warnings kept as the outcome of p.
CallCheckStructure(p) ==
    /\ outcome[p] = Pending
    /\ call.fn = "parse_contract_header"
    /\ outcome' = [outcome EXCEPT ![p] = Return(CheckStructure(call.content))]
    /\ UNCHANGED <<pc, op, dl, er, vc, pureVars, fsVars, netVars, histVars, sysVars>>

NextAgree ==
    \/ CallParseContractHeader
    \/ CallCheckStructure("p1")

SpecAgree == InitAgree /\ [][NextAgree]_vars

(***************************************************************************)
(* cli.py: cli, _is_legacy_invocation and _run_legacy_lint.  An argument   *)
(* is the sequence of its pieces, an option starting with the piece "-".   *)
(***************************************************************************)
SUBCOMMANDS == {<<"check">>, <<"lint">>, <<"validate">>, <<"schema">>, <<"download">>}

Opt(name) == <<"-", "-", name>>

\* lines 38-54; argv[1] is the program.
IsLegacyInvocation(argv) ==
    IF Len(argv) < 2 THEN FALSE
    ELSE LET first_arg == argv[2]
         IN ~(first_arg \in SUBCOMMANDS \/ StartsWith(first_arg, <<"-">>))

\* lines 64-70: the parser of the legacy mode.  A usage error ends the
\* process with status 2.
NoArgs == [contract |-> NoneV, output_format |-> "text", severity |-> NoneV,
           exclude_rules |-> <<>>, usage_error |-> FALSE]
UsageError == [NoArgs EXCEPT !.usage_error = TRUE]

RECURSIVE ParseArgs(_, _)
ParseArgs(rest, args) ==
    IF rest = <<>> THEN (IF args.contract = NoneV THEN UsageError ELSE args)
    ELSE LET arg == Head(rest)
             value == IF Len(rest) >= 2 /\ ~StartsWith(rest[2], <<"-">>)
                      THEN Some(rest[2][1]) ELSE NoneV
         IN CASE arg = Opt("format") ->
                   IF value = NoneV \/ value[1] \notin {"json", "text"} THEN UsageError
                   ELSE ParseArgs(Drop(rest, 2), [args EXCEPT !.output_format = value[1]])
              [] arg = Opt("severity") ->
                   IF value = NoneV \/ value[1] \notin {"error", "warning", "info"}
                   THEN UsageError
                   ELSE ParseArgs(Drop(rest, 2), [args EXCEPT !.severity = value])
              [] arg = Opt("exclude-rule") ->
                   IF value = NoneV THEN UsageError
                   ELSE ParseArgs(Drop(rest, 2),
                                  [args EXCEPT !.exclude_rules = Append(@, value[1])])
              [] OTHER ->
                   IF StartsWith(arg, <<"-">>) \/ args.contract # NoneV THEN UsageError
                   ELSE ParseArgs(Tail(rest), [args EXCEPT !.contract = Some(arg[1])])

\* The files the legacy runs are given, by name.
LegacyFiles ==
    [clean |-> LintFile(TRUE, "full", "clean", NoneV),
     missing |-> LintFile(FALSE, "full", "clean", NoneV),
     float |-> LintFile(TRUE, "wrapped", "float", NoneV),
     bare |-> LintFile(TRUE, "bare", "allowed", NoneV),
     broken |-> LintFile(TRUE, "full", "clean", Some(3)),
     mixed |-> LintFile(TRUE, "none", "several", NoneV),
     unparsed |-> LintFile(TRUE, "other", "os", Some(0))]

LegacyOp(argv) ==
    [name |-> "legacy", argv |-> argv, args |-> NoArgs, linted |-> FALSE,
     result |-> LintResult(TRUE, 0, <<>>), printed |-> <<>>, status |-> NoneV]

\* A process is started with argv.
StartLegacy(p, argv) ==
    /\ pc[p] = "idle"
    /\ op' = [op EXCEPT ![p] = LegacyOp(argv)]
    /\ pc' = [pc EXCEPT ![p] = "cli_entry"]
    /\ UNCHANGED <<outcome, dl, er, vc, pureVars, sysVars, fsVars, netVars, histVars>>

\* lines 236-241: cli()
CliEntry(p) ==
    /\ pc[p] = "cli_entry"
    /\ pc' = [pc EXCEPT ![p] =
                 IF IsLegacyInvocation(op[p].argv) THEN "legacy_args" ELSE "cli_main"]
    /\ UNCHANGED <<op, outcome, dl, er, vc, pureVars, sysVars, fsVars, netVars, histVars>>

\* line 241: main() on --help, which click answers with the usage text.
CliMainHelp(p) ==
    /\ pc[p] = "cli_main"
    /\ Exit(p, op[p], 0)
    /\ UNCHANGED <<outcome, dl, er, vc, pureVars, sysVars, fsVars, netVars, histVars>>

\* line 70: args = parser.parse_args()
LegacyParseArgs(p) ==
    /\ pc[p] = "legacy_args"
    /\ LET args == ParseArgs(Drop(op[p].argv, 1), NoArgs)
           frame == [op[p] EXCEPT !.args = args]
       IN IF args.usage_error
          THEN Exit(p, frame, 2)
          ELSE /\ op' = [op EXCEPT ![p] = frame]
               /\ pc' = [pc EXCEPT ![p] = "legacy_lint"]
    /\ UNCHANGED <<outcome, dl, er, vc, pureVars, sysVars, fsVars, netVars, histVars>>

\* The codes of the linter that start with "E".
IsErrorCode(code) == code \in {"E001", "E100"}

\* line 86
FilterSeverity(warnings, severity) ==
    IF severity = Some("error")
    THEN SelectSeq(warnings, LAMBDA w : IsErrorCode(w.code))
    ELSE warnings

\* lines 89-90
FilterExcluded(warnings, exclude_rules) ==
    IF exclude_rules # <<>>
    THEN SelectSeq(warnings, LAMBDA w : \A i \in 1..Len(exclude_rules) : w.code # exclude_rules[i])
    ELSE warnings

\* line 97, on the result whose warnings have been filtered.
LegacyStatus_OfFiltered(result) == IF result.warnings = <<>> THEN 0 ELSE 1

LegacyStatus(result) == IF result.ok THEN 0 ELSE 1

\* lines 72-97: the rest of _run_legacy_lint.  printed is the list of the
\* codes written to the standard output.
RunLegacyLint(p) ==
    /\ pc[p] = "legacy_lint"
    /\ LET args == op[p].args
           file == LegacyFiles[args.contract[1]]
       IN IF ~file.exists
          THEN Exit(p, [op[p] EXCEPT !.printed =
                           IF args.output_format = "json" THEN <<"E001">> ELSE <<"Error">>], 1)
          ELSE LET linted == LintContract(file)
                   warnings == FilterExcluded(FilterSeverity(linted.warnings, args.severity),
                                              args.exclude_rules)
                   result == [linted EXCEPT !.warnings = warnings]
               IN Exit(p, [op[p] EXCEPT !.linted = TRUE, !.result = result,
                                        !.printed = [i \in 1..Len(warnings) |-> warnings[i].code]],
                       LegacyStatus(result))
    /\ UNCHANGED <<outcome, dl, er, vc, pureVars, sysVars, fsVars, netVars, histVars>>

(***************************************************************************)
(* SpecLegacy: one process after the other is started the way the VS Code  *)
(* extension starts the linter, or with --help.                            *)
(***************************************************************************)
Prog == <<"genvm_linter.cli">>

FormatArgs == {<<>>, <<Opt("format"), <<"json">>>>, <<Opt("format"), <<"text">>>>}
SeverityArgs ==
    {<<>>} \cup {<<Opt("severity"), <<v>>>> : v \in {"error", "warning", "info", "fatal"}}
ExcludeArgs ==
    {<<>>, <<Opt("exclude-rule"), <<"W003">>>>,
     <<Opt("exclude-rule"), <<"W010">>, Opt("exclude-rule"), <<"E001">>>>}

LegacyArgvs ==
    {<<Prog, <<f>>>> \o fa \o sa \o ea :
        f \in DOMAIN LegacyFiles, fa \in FormatArgs, sa \in SeverityArgs, ea \in ExcludeArgs}

Argvs == LegacyArgvs \cup {<<Prog, Opt("help")>>, <<Prog, <<"lint">>, Opt("help")>>}

InitLegacy ==
    /\ call = [fn |-> "none"]
    /\ ret = Pending
    /\ InitCache
    /\ InitProcs

NextLegacy ==
    \/ \E argv \in Argvs : StartLegacy("p1", argv)
    \/ CliEntry("p1")
    \/ CliMainHelp("p1")
    \/ LegacyParseArgs("p1")
    \/ RunLegacyLint("p1")
    \/ CliFinish("p1")

SpecLegacy == InitLegacy /\ [][NextLegacy]_vars

InitIdlePure ==
    /\ call = [fn |-> "none"]
    /\ ret = Pending

(***************************************************************************)
(* Spec: one invocation at a time calls validate_contract on a contract    *)
(* file, starting from an empty cache.                                     *)
(***************************************************************************)
Init ==
    /\ InitIdlePure
    /\ InitCache
    /\ InitProcs

Next ==
    \/ \E c \in ContractIds : StartValidate("p1", c)
    \/ ValidateStep("p1")
    \/ LoadSdkStep("p1")
    \/ DownloadStep("p1")
    \/ ExtractStep("p1")
    \/ Finish("p1")
    \/ PublishRelease

Spec == Init /\ [][Next]_vars

(***************************************************************************)
(* SpecSandbox: one process calls validate_contract several times, on      *)
(* contracts whose headers pin different SDK hashes.                       *)
(***************************************************************************)
SandboxContracts == {"token.py", "typed.py", "old.py", "syntax.py"}

NextSandbox ==
    \/ \E c \in SandboxContracts : StartValidate("p1", c)
    \/ ValidateStep("p1")
    \/ LoadSdkStep("p1")
    \/ DownloadStep("p1")
    \/ ExtractStep("p1")
    \/ Again("p1")
    \/ PublishRelease

SpecSandbox == Init /\ [][NextSandbox]_vars

(***************************************************************************)
(* SpecCli: one genvm-lint command at a time, starting from an empty       *)
(* cache.                                                                  *)
(***************************************************************************)
CliContracts ==
    {"missing.py", "token.py", "typed.py", "syntax.py", "empty.py", "lazy.py", "binary.py"}

InitCli ==
    /\ InitIdlePure
    /\ InitCache
    /\ InitProcs

NextCli ==
    \/ \E command \in ContractCommands, c \in CliContracts :
           StartCli("p1", command, c, None, FALSE)
    \/ \E version \in Versions \cup {None}, list_versions \in BOOLEAN :
           StartCli("p1", "download", "", version, list_versions)
    \/ CliStep("p1")
    \/ ValidateStep("p1")
    \/ LoadSdkStep("p1")
    \/ DownloadStep("p1")
    \/ ExtractStep("p1")
    \/ CliFinish("p1")

SpecCli == InitCli /\ [][NextCli]_vars

(***************************************************************************)
(* SpecDownload: one invocation at a time calls download_artifacts, with   *)
(* an explicit version or with the version omitted.                        *)
(***************************************************************************)
InitDownload ==
    /\ InitIdlePure
    /\ InitCache
    /\ InitProcs

NextDownload ==
    \/ \E version \in Versions \cup {None} : StartDownload("p1", version)
    \/ DownloadStep("p1")
    \/ Finish("p1")
    \/ PublishRelease

SpecDownload == InitDownload /\ [][NextDownload]_vars

(***************************************************************************)
(* SpecExtract: one invocation at a time calls extract_runner on the       *)
(* bundles of the cache, while the bundles change and sentinels are placed *)
(* between and during the calls.                                           *)
(***************************************************************************)
ExtractRefs == {<<PyGenlayer, HashG>>, <<PyLibStd, HashS>>, <<PyGenlayer, HashMissing>>}
ExtractBundles == {TarballPath("v1")}

InitExtract ==
    /\ InitIdlePure
    /\ InitProcs
    /\ files = [path \in BundlePaths |-> RemoteBundle(path[2])]
    /\ dirs = [path \in RunnerPaths |-> NoDir]
    /\ latest_release = "v1"

NextExtract ==
    \/ \E b \in ExtractBundles, ref \in ExtractRefs : StartExtract("p1", b, ref[1], ref[2])
    \/ ExtractStep("p1")
    \/ Finish("p1")
    \/ \E path \in RunnerPaths : PlaceSentinel(path)
    \/ \E path \in ExtractBundles, content \in FileContents : ReplaceBundle(path, content)

SpecExtract == InitExtract /\ [][NextExtract]_vars

(***************************************************************************)
(* Character order (ASCII) of the characters member names are made of.     *)
(***************************************************************************)
AsciiOrder ==
    <<"-", ".", "/", "0", "1", "2", "3", "4", "5", "6", "7", "8", "9",
      "a", "b", "c", "d", "e", "f", "g", "h", "i", "j", "k", "l", "m",
      "n", "o", "p", "q", "r", "s", "t", "u", "v", "w", "x", "y", "z">>

Ord(c) == CHOOSE i \in 1..Len(AsciiOrder) : AsciiOrder[i] = c

\* a < b in the lexicographic order of strings.
LexLess(a, b) ==
    \E k \in 0..Min(Len(a), Len(b)) :
        /\ \A i \in 1..k : a[i] = b[i]
        /\ \/ k = Len(a) /\ k < Len(b)
           \/ k < Len(a) /\ k < Len(b) /\ Ord(a[k + 1]) < Ord(b[k + 1])

(***************************************************************************)
(* SpecDownloadRace: two invocations that share the cache call             *)
(* download_artifacts for the same version, which is not in the cache.     *)
(***************************************************************************)
RaceVersion == "v1"

NextDownloadRace ==
    \E p \in Procs :
        \/ StartDownload(p, RaceVersion)
        \/ DownloadStep(p)
        \/ Finish(p)

SpecDownloadRace == InitDownload /\ [][NextDownloadRace]_vars

(***************************************************************************)
(* SpecExtractRace: two invocations that share the cache call              *)
(* extract_runner for the same component of the same bundle; their steps   *)
(* interleave in every order.                                              *)
(***************************************************************************)
RaceRef == <<TarballPath("v1"), PyGenlayer, HashG>>

NextExtractRace ==
    \E p \in Procs :
        \/ StartExtract(p, RaceRef[1], RaceRef[2], RaceRef[3])
        \/ ExtractStep(p)
        \/ Finish(p)

SpecExtractRace == InitExtract /\ [][NextExtractRace]_vars

(***************************************************************************)
(* Claims about the pure helpers (SpecPure).                               *)
(***************************************************************************)
PathByCharacter(t, h) ==
    LET n == Min(2, Len(h))
    IN <<"r", "u", "n", "n", "e", "r", "s", "/">> \o t \o <<"/">>
           \o [i \in 1..n |-> h[i]] \o <<"/">>
           \o [i \in 1..(Len(h) - n) |-> h[n + i]] \o <<".", "t", "a", "r">>

\* C2: for every runner type t and hash h (a hash of length 2, whose suffix
\* is empty, included), hash_to_tar_path(t, h) is
\* "runners/" + t + "/" + h[:2] + "/" + h[2:] + ".tar".
C2_HashToTarPathFormat ==
    (call.fn = "hash_to_tar_path" /\ ret # Pending)
        => ret = Return(PathByCharacter(call.runner_type, call.hash_val))

C2_Witness ==
    /\ call.fn = "hash_to_tar_path"
    /\ Len(call.hash_val) = 2
    /\ ret = Return(RunnersSlash \o call.runner_type \o <<"/">> \o call.hash_val
                        \o <<"/", ".", "t", "a", "r">>)

\* The members of the bundle under runners/t/ that end in .tar, as a set.
RunnerNameSet(members, t) ==
    {members[i] : i \in {j \in 1..Len(members) :
        /\ StartsWith(members[j], RunnersSlash \o t \o Slash)
        /\ EndsWith(members[j], DotTar)}}

LexLast(S) == CHOOSE a \in S : \A b \in S : b = a \/ LexLess(b, a)

\* The hash a member name stands for: the directory prefix concatenated
\* with the file suffix.
HashOfMember(name, t) ==
    LET middle == SubSeq(name, Len(RunnersSlash \o t \o Slash) + 1, Len(name) - Len(DotTar))
    IN SelectSeq(middle, LAMBDA c : c # "/")

\* C10: find_latest_runner(bundle, t) returns None when the bundle has no
\* member under runners/t/ ending in .tar, and otherwise the hash of the
\* lexicographically last such member name, whatever the archive order.
C10_LexicographicallyLast ==
    (call.fn = "find_latest_runner" /\ ret # Pending)
        => LET S == RunnerNameSet(call.members, call.runner_type)
           IN IF S = {} THEN ret = ReturnNone
              ELSE ret = Return(HashOfMember(LexLast(S), call.runner_type))

(***************************************************************************)
(* Claims about download_artifacts (SpecDownload).                         *)
(***************************************************************************)
\* C1: for every call of download_artifacts, with an explicit version or
\* with the version omitted, if a bundle file exists at the cache path of
\* the version the call resolves to, the call returns that path and issues
\* no network request of any kind.
C1_CacheHitNoNetwork ==
    \A p \in Procs :
        (dl[p].hit /\ dl[p].result # Pending)
            => /\ dl[p].result = Return(dl[p].path)
               /\ dl[p].requests = {}

\* C5: if the download fails after the cache miss was established, no file
\* exists at the canonical bundle path when the failure propagates.
C5_NoBundleLeftAfterFailedDownload ==
    \A p \in Procs :
        (dl[p].missed /\ dl[p].result.tag = "raise")
            => files[dl[p].path] = Absent

C5_Witness ==
    \E p \in Procs :
        /\ pc[p] = "done"
        /\ op[p].name = "download_artifacts"
        /\ outcome[p].tag = "raise"
        /\ dl[p].missed
        /\ dl[p].wrote
        /\ files[dl[p].path] = Absent

(***************************************************************************)
(* Claims about extract_runner (SpecExtract).                              *)
(***************************************************************************)
\* C3: extraction is idempotent: after extract_runner(bundle, t, h) has
\* succeeded once, every later call with the same inputs returns the same
\* path without opening the archive and without modifying the component
\* directory (a sentinel placed in it survives), whatever the bundle now
\* contains.
C3_ExtractionIdempotent ==
    \A p \in Procs :
        er[p].again
            => /\ ~er[p].opened
               /\ dirs[er[p].runner_path].exists
               /\ er[p].before.entries \subseteq dirs[er[p].runner_path].entries
               /\ dirs[er[p].runner_path].entries
                      \subseteq er[p].before.entries \cup {Sentinel}
               /\ er[p].result # Pending
                      => \E e \in extracted :
                             /\ <<e[1], e[2], e[3]>> =
                                    <<er[p].tarball_path, er[p].runner_type, er[p].hash_val>>
                             /\ er[p].result = Return(e[4])

C3_Witness ==
    \E p \in Procs :
        /\ er[p].again
        /\ pc[p] = "done"
        /\ outcome[p] = Return(er[p].runner_path)
        /\ Sentinel \in er[p].before.entries
        /\ Sentinel \in dirs[er[p].runner_path].entries
        /\ files[er[p].tarball_path] = Partial

\* C4: if extract_runner fails for a component that was not yet cached
\* (member missing, outer archive unreadable, inner archive corrupt, failure
\* partway through writing files), the component directory does not exist
\* when the failure propagates.
C4_FailedExtractionLeavesNoDirectory ==
    \A p \in Procs :
        (er[p].result.tag = "raise" /\ ~er[p].cached)
            => ~dirs[er[p].runner_path].exists

C4_Witness ==
    \E p \in Procs :
        /\ pc[p] = "done"
        /\ op[p].name = "extract_runner"
        /\ outcome[p].tag = "raise"
        /\ er[p].wrote
        /\ ~dirs[er[p].runner_path].exists

(***************************************************************************)
(* Claims about validate_contract (Spec).                                  *)
(***************************************************************************)
StageOrder ==
    <<"exists", "load_sdk", "load_contract_module", "find_contract_class", "get_schema">>

SdkStepOrder ==
    <<"parse_contract_header", "download_artifacts", "extract_sdk_paths",
      "import numpy", "setup_wasi_mocks", "import get_schema">>

CodesOf(stage) ==
    CASE stage = "exists" -> {"E100"}
      [] stage = "load_sdk" -> {"E101"}
      [] stage = "load_contract_module" -> {"E102", "E103", "E104"}
      [] stage = "find_contract_class" -> {"E105"}
      [] stage = "get_schema" -> {"E106", "E107"}

IsPrefix(a, b) == Len(a) <= Len(b) /\ a = SubSeq(b, 1, Len(a))

\* A call of validate_contract has returned a ValidationResult.
Returned(p) ==
    /\ pc[p] = "done"
    /\ op[p].name = "validate_contract"
    /\ outcome[p].tag = "return"

C7_ResultShape ==
    \A p \in Procs :
        Returned(p)
            => LET r == outcome[p].val
               IN /\ r.ok => (r.schema # NoneV /\ r.errors = <<>>)
                  /\ ~r.ok => (r.errors # <<>> /\ r.schema = NoneV)

C7_Witness ==
    \E p \in Procs :
        /\ Returned(p)
        /\ ~outcome[p].val.ok
        /\ outcome[p].val.errors[1].code = "E106"
        /\ vc[p].contract_class # NoneV
        /\ outcome[p].val.schema = NoneV

\* C8: validate_contract never lets a raw failure reach its caller: for a
\* failure raised in any stage (scanning the module for the contract class
\* included) the call returns a ValidationResult with ok=false and an
\* error holding a code and a message instead of raising.
C8_NoRawFailure ==
    \A p \in Procs :
        (pc[p] = "done" /\ op[p].name = "validate_contract")
            => /\ outcome[p].tag = "return"
               /\ (\E i \in 1..Len(vc[p].stages) : ~vc[p].stages[i].ok)
                      => /\ ~outcome[p].val.ok
                         /\ outcome[p].val.errors # <<>>
                         /\ {"code", "msg"} \subseteq DOMAIN outcome[p].val.errors[1]

\* C9: validate_contract returns ok=true only when SDK load, contract
\* module load, class discovery and reflection have all completed without
\* failure; then contract_name is the name of the discovered class and
\* schema is exactly the value the SDK's reflection returned for it.
C9_SuccessIsComplete ==
    \A p \in Procs :
        (Returned(p) /\ outcome[p].val.ok)
            => LET r == outcome[p].val
                   file == Contract(op[p].contract)
                   found == FindContractClass(file.namespace)
               IN /\ [i \in 1..Len(vc[p].stages) |-> vc[p].stages[i].stage] = StageOrder
                  /\ \A i \in 1..Len(vc[p].stages) : vc[p].stages[i].ok
                  /\ vc[p].sdk_steps = SdkStepOrder
                  /\ Len(vc[p].sdk_paths) > 0
                  /\ file.load.tag = "ok"
                  /\ found.tag = "return"
                  /\ found.val.reflect.tag = "return"
                  /\ r.contract_name = Some(found.val.clsname)
                  /\ r.schema = Some(found.val.reflect.val)

C9_Witness ==
    \E p \in Procs :
        /\ Returned(p)
        /\ outcome[p].val.ok
        /\ op[p].contract = "token.py"
        /\ outcome[p].val.contract_name = Some("Token")
        /\ Cardinality(DOMAIN outcome[p].val.schema[1].methods) = 1

(***************************************************************************)
(* Claims about parse_contract_header (SpecHeader).                        *)
(***************************************************************************)
\* The name-to-hash pairs the comment block of the call declares.
DeclaredPairs == {<<<<call.entries[i].name>>, <<call.entries[i].hash_val>>>> :
                      i \in 1..Len(call.entries)}

ReturnedPairs == {<<n, ret.val[n]>> : n \in DOMAIN ret.val}

HeaderReturned == call.fn = "parse_contract_header" /\ ret.tag = "return"

\* C11: for a leading comment block that contains N entries of the form
\* "Depends": "name:hash", however the JSON is wrapped across comment
\* lines, parse_contract_header returns exactly those N name-to-hash pairs.
C11_HeaderRoundTrip ==
    HeaderReturned => ReturnedPairs = DeclaredPairs

\* C12: parse_contract_header reads only the run of lines starting with '#'
\* at the very top of the file and stops at the first line that does not
\* (a blank line included): a Depends entry on or after that line is never
\* part of the returned mapping.
C12_OnlyLeadingCommentBlock ==
    HeaderReturned
        => /\ ReturnedPairs \subseteq DeclaredPairs
           /\ \A n \in DOMAIN ret.val : ret.val[n] # <<TailHash>>

C12_Witness ==
    /\ HeaderReturned
    /\ call.tail = "blank"
    /\ Len(call.entries) = 2
    /\ call.breaks # {}
    /\ ReturnedPairs = DeclaredPairs

(***************************************************************************)
(* Claims about extract_sdk_paths (Spec).                                  *)
(***************************************************************************)
Validating(p) == op[p].name = "validate_contract"

\* The manifest of the extracted py-genlayer component does not pin
\* py-lib-genlayer-std: it is absent, or it names no such dependency.
StdNotPinned(p) ==
    /\ vc[p].runner_deps # NoneV
    /\ PyLibStd \notin DOMAIN vc[p].runner_deps[1]

\* C13: in extract_sdk_paths the hash of py-lib-genlayer-std comes only
\* from the manifest (runner.json) of the extracted py-genlayer component;
\* if the manifest is absent or does not pin it, resolution fails with an
\* error, find_latest_runner is never asked for it, and no library path is
\* returned.
C13_StdHashOnlyFromManifest ==
    \A p \in Procs :
        Validating(p)
            => /\ PyLibStd \notin vc[p].lookups
               /\ vc[p].runner_deps # NoneV
                      => vc[p].runner_deps[1]
                             = ParseRunnerManifest(dirs[vc[p].runner_path]).val
               /\ er[p].runner_type = PyLibStd
                      => /\ ~StdNotPinned(p)
                         /\ vc[p].runner_deps # NoneV
                         /\ er[p].hash_val = vc[p].runner_deps[1][PyLibStd]
               /\ StdNotPinned(p)
                      => /\ pc[p] \in {"vc_sdk_failed", "done"}
                         /\ vc[p].exc = "RuntimeError"
                         /\ vc[p].sdk_paths = <<>>
                         /\ "import numpy" \notin {vc[p].sdk_steps[i] :
                                                       i \in 1..Len(vc[p].sdk_steps)}
                         /\ pc[p] = "done"
                                => /\ outcome[p].tag = "return"
                                   /\ ~outcome[p].val.ok
                                   /\ outcome[p].val.errors[1].code = "E101"

\* The manifest is absent (bare.py pins a runner that ships no runner.json).
C13_Witness ==
    \E p \in Procs :
        /\ Validating(p)
        /\ pc[p] = "done"
        /\ StdNotPinned(p)
        /\ \A e \in dirs[vc[p].runner_path].entries : e[1] # "runner.json"
        /\ dirs[vc[p].runner_path].exists
        /\ outcome[p].val.errors[1].code = "E101"

(***************************************************************************)
(* Claims about the results of validate_contract for kinds of contract     *)
(* files (Spec).                                                           *)
(***************************************************************************)
Finished(p) == pc[p] = "done" /\ Validating(p)

StageOk(p, i) == Len(vc[p].stages) >= i /\ vc[p].stages[i].ok

\* The result is ok=false with exactly one error, of this code.
FailsWith(p, code) ==
    /\ outcome[p].tag = "return"
    /\ ~outcome[p].val.ok
    /\ Len(outcome[p].val.errors) = 1
    /\ outcome[p].val.errors[1].code = code

SyntaxErrorResult(p) ==
    /\ FailsWith(p, "E102")
    /\ "line" \in DOMAIN outcome[p].val.errors[1]
    /\ outcome[p].val.errors[1].line = Contract(op[p].contract).load.lineno

\* C14 as stated: for every contract file whose source has a syntax error
\* at line N, validate_contract returns ok=false with exactly one error,
\* whose code is E102 and whose line is N.
C14_SyntaxErrorAlwaysE102 ==
    \A p \in Procs :
        (Finished(p) /\ Contract(op[p].contract).load.tag = "SyntaxError")
            => SyntaxErrorResult(p)

\* C14 amended: for every contract file whose source has a syntax error at
\* line N, validate_contract never raises; when the SDK load stage
\* succeeds it returns ok=false with exactly one error, of code E102 and
\* line N, and when the SDK load stage fails it returns the error of that
\* stage (E101) and the file is not executed.
C14_SyntaxErrorAfterSdkLoad ==
    \A p \in Procs :
        (Finished(p) /\ Contract(op[p].contract).load.tag = "SyntaxError")
            => /\ outcome[p].tag = "return"
               /\ StageOk(p, 2) => SyntaxErrorResult(p)
               /\ ~StageOk(p, 2) => FailsWith(p, "E101")

C14_Witness ==
    \E p \in Procs :
        /\ Finished(p)
        /\ op[p].contract = "syntax.py"
        /\ StageOk(p, 2)
        /\ FailsWith(p, "E102")
        /\ outcome[p].val.errors[1].line = 7

\* C15: for every contract file that loads but declares no qualifying class
\* (none with a publicly marked method, none inheriting from the base
\* contract type), validate_contract returns ok=false with exactly one
\* error, whose code is E105 and which has no line field.
Qualifies(obj) ==
    /\ obj.isclass
    /\ obj.name # "Contract"
    /\ \/ \E i \in 1..Len(obj.attrs) : obj.attrs[i].callable /\ obj.attrs[i].public
       \/ \E i \in 1..Len(obj.mro) : obj.mro[i] = "Contract"

NoQualifyingClass(c) ==
    \A i \in 1..Len(Contract(c).namespace) : ~Qualifies(Contract(c).namespace[i])

C15_NoClassGivesE105 ==
    \A p \in Procs :
        (Finished(p) /\ StageOk(p, 3) /\ NoQualifyingClass(op[p].contract))
            => /\ FailsWith(p, "E105")
               /\ "line" \notin DOMAIN outcome[p].val.errors[1]

(***************************************************************************)
(* Claims about the cache layout (SpecExtract).                            *)
(***************************************************************************)
\* C16: for a bundle of version V stored at get_tarball_path(V),
\* extract_runner(bundle, t, h) places and returns the component at
\* <cache-root>/extracted/V/t/h, the directory segment after extracted/
\* being exactly the version string V.
C16_ExtractedUnderVersion ==
    \A e \in extracted :
        \A version \in Versions :
            e[1] = TarballPath(version)
                => /\ e[4] = <<"extracted", <<version>>, e[2], e[3]>>
                   /\ dirs[e[4]].exists

(***************************************************************************)
(* Claims about the exit status of the commands (SpecCli).                 *)
(***************************************************************************)
Exited(p) == pc[p] = "exited" /\ op[p].name = "cli"

\* The command did what it was asked to do.
CommandSucceeded(p) ==
    /\ op[p].uncaught = ""
    /\ CASE op[p].command = "lint" -> op[p].linted /\ op[p].lint_ok
         [] op[p].command \in {"validate", "schema"} ->
                outcome[p].tag = "return" /\ outcome[p].val.ok
         [] op[p].command = "check" ->
                /\ op[p].linted /\ op[p].lint_ok
                /\ outcome[p].tag = "return" /\ outcome[p].val.ok
         [] op[p].command = "download" ->
                op[p].list_versions \/ dl[p].result.tag = "return"

\* Version resolution or the transfer of the bundle failed in this command.
DownloadFailed(p) == op[p].resolve_failed \/ dl[p].result.tag = "raise"

\* C17: each command exits with status 0 on success and a non-zero status
\* on failure, and every download failure (version resolution or bundle
\* transfer failing, in the download command or during validation) is
\* reported with the one exit status 3, which no other failure uses.
C17_ExitStatus ==
    \A p \in Procs :
        Exited(p)
            => /\ op[p].status = Some(0) <=> CommandSucceeded(p)
               /\ op[p].status = Some(3) <=> DownloadFailed(p)

(***************************************************************************)
(* Claims about invocations that share the cache (SpecExtractRace,         *)
(* SpecDownloadRace).                                                      *)
(***************************************************************************)
\* The files of a component as its archive in the bundle holds them.
ComponentEntries(content, runner_type, hash_val) ==
    LET members == Members(content)
        found == {i \in 1..Len(members) :
                      members[i].name = HashToTarPath(runner_type, hash_val)}
    IN UNION {{members[i].inner.entries[k] : k \in 1..Len(members[i].inner.entries)} :
                  i \in found}

CompletelyExtracted(path, content, runner_type, hash_val) ==
    /\ dirs[path].exists
    /\ ComponentEntries(content, runner_type, hash_val) \subseteq dirs[path].entries

\* C18: when two invocations sharing one cache concurrently call
\* extract_runner for the same component that is not yet extracted, an
\* invocation that returns a path returns it only once the component at
\* that path is completely extracted, and a failure in one invocation
\* never removes a directory that the other has returned or is filling.
C18_ExtractRaceHarmless ==
    \A p \in Procs :
        (pc[p] = "done" /\ op[p].name = "extract_runner" /\ outcome[p].tag = "return")
            => CompletelyExtracted(outcome[p].val, files[er[p].tarball_path],
                                   er[p].runner_type, er[p].hash_val)

\* C19: a bundle file exists at the canonical cache path of a version only
\* as the result of a successful download and is immutable thereafter: in
\* every interleaving of concurrent download_artifacts calls for the same
\* uncached version, every call that returns a path returns the path of a
\* completely downloaded bundle, and no call's failure removes or
\* truncates a bundle another call has returned.
C19_DownloadRaceHarmless ==
    \A p \in Procs :
        (pc[p] = "done" /\ op[p].name = "download_artifacts" /\ outcome[p].tag = "return")
            => files[outcome[p].val] = RemoteBundle(dl[p].version)

(***************************************************************************)
(* Claims about the import environment of a process (SpecSandbox).         *)
(***************************************************************************)
SandboxSet(p) ==
    \E i \in DOMAIN vc[p].sdk_steps : vc[p].sdk_steps[i] = "setup_wasi_mocks"

OwnSearchPath(p) == InsertReversed(vc[p].sdk_paths, <<>>)

\* C20: the sandbox does not leak state across validation calls in one
\* process: once a validate_contract call has set up its sandbox, the
\* import search path holds exactly the entries of the call's own SDK
\* components, the mocked host bindings are the fresh ones, and the SDK
\* reflection function in use was loaded from one of the call's own
\* components, whatever contracts were validated before it.
C20_SandboxDoesNotLeak ==
    \A p \in Procs :
        (Validating(p) /\ SandboxSet(p))
            => /\ sys[p].path = OwnSearchPath(p)
               /\ sys[p].wasi = Some(WasiMock)
               /\ sys[p].get_schema # NoneV
                      => \E i \in DOMAIN OwnSearchPath(p) :
                             sys[p].get_schema = Some(OwnSearchPath(p)[i])

(***************************************************************************)
(* Claims about the component paths (SpecSandbox).                         *)
(***************************************************************************)
\* The runner type of an extracted component directory.
TypeOfPath(path) == path[3]

ExpectedTypes(p) ==
    <<PyLibStd>>
    \o (IF RunnerMembers(MemberNamesOf(files[vc[p].tarball_path]), PyLibProtobuf) # <<>>
        THEN <<PyLibProtobuf>> ELSE <<>>)
    \o (IF PyLibEmbeddings \in DOMAIN vc[p].dependencies
        THEN <<PyLibEmbeddings>> ELSE <<>>)

\* C21: extract_sdk_paths returns the component paths in the order
\* py-lib-genlayer-std, py-lib-protobuf if the bundle contains one,
\* py-lib-genlayer-embeddings if and only if the header names it; after
\* load_sdk has inserted them, they stand at the front of the import search
\* path in that same order, std first, before every earlier entry.
C21_PathOrder ==
    [][\A p \in Procs :
          (Validating(p) /\ pc[p] = "ls_sandbox" /\ pc'[p] = "ls_import")
              => /\ [i \in DOMAIN vc[p].sdk_paths |-> TypeOfPath(vc[p].sdk_paths[i])]
                        = ExpectedTypes(p)
                 /\ sys'[p].path
                        = [i \in DOMAIN vc[p].sdk_paths |-> SrcPath(vc[p].sdk_paths[i])]
                          \o sys[p].path]_vars

\* All three components are in front of entries an earlier call left.
C21_Witness ==
    \E p \in Procs :
        /\ Validating(p) /\ SandboxSet(p)
        /\ Len(vc[p].sdk_paths) = 3
        /\ Len(sys[p].path) > 3

(***************************************************************************)
(* Claims about find_contract_class (Spec).                                *)
(***************************************************************************)
\* The classes the contract file itself declares that qualify, by their
\* position in the module namespace.
DeclaredQualifying(module) ==
    {i \in 1..Len(module) : Qualifies(module[i]) /\ module[i].module = "contract"}

FindClassCalled(p) ==
    /\ Validating(p)
    /\ \E i \in DOMAIN vc[p].stages : vc[p].stages[i].stage = "find_contract_class"

\* C22: find_contract_class scans the classes declared in the loaded
\* module in declaration order and returns the first one that has a method
\* carrying __gl_public__ or inherits from Contract; a class that is only
\* imported, or that does not qualify, is never returned, and when no class
\* qualifies the function returns None rather than raising.
C22_FirstDeclaredQualifyingClass ==
    \A p \in Procs :
        FindClassCalled(p)
            => LET module == vc[p].module
                   declared == DeclaredQualifying(module)
               IN IF declared = {}
                  THEN /\ vc[p].contract_class = NoneV
                       /\ outcome[p].tag = "return"
                  ELSE vc[p].contract_class
                           = Some(module[CHOOSE i \in declared :
                                             \A j \in declared : i <= j])

(***************************************************************************)
(* Claims about the JSON payload (Spec).                                   *)
(***************************************************************************)
SchemaKeys == {"methods", "view_methods", "write_methods", "ctor_params"}

\* C23: the payload ValidationResult.to_dict builds has ok and the errors
\* list always, contract only when a contract name was found, and methods,
\* view_methods, write_methods and ctor_params only when a schema was
\* extracted; when present, view_methods + write_methods = methods.
C23_PayloadFieldPresence ==
    \A p \in Procs :
        (Finished(p) /\ outcome[p].tag = "return")
            => LET r == outcome[p].val
                   payload == ToDict(r)
               IN /\ {"ok", "errors"} \subseteq DOMAIN payload
                  /\ "contract" \in DOMAIN payload <=> r.contract_name # NoneV
                  /\ \A k \in SchemaKeys : k \in DOMAIN payload <=> r.schema # NoneV
                  /\ "methods" \in DOMAIN payload
                         => payload["view_methods"] + payload["write_methods"]
                                = payload["methods"]

(***************************************************************************)
(* Claims about reflection failures (Spec).                                *)
(***************************************************************************)
\* The text has the pattern 'line': N at position i: the key, spaces, and
\* the digits of N, which no further digit follows.
PatternAt(msg, i, j, k) ==
    /\ msg[i] = "'line':"
    /\ i < j /\ j <= k /\ k <= Len(msg)
    /\ \A n \in (i + 1)..(j - 1) : msg[n] = " "
    /\ \A n \in j..k : msg[n] \in Digits
    /\ k < Len(msg) => msg[k + 1] \notin Digits

HasPattern(msg) == \E i, j, k \in 1..Len(msg) : PatternAt(msg, i, j, k)

\* N of the first occurrence of the pattern.
PatternLine(msg) ==
    LET i == CHOOSE a \in 1..Len(msg) :
                 /\ \E j, k \in 1..Len(msg) : PatternAt(msg, a, j, k)
                 /\ \A b \in 1..(a - 1) : ~\E j, k \in 1..Len(msg) : PatternAt(msg, b, j, k)
        jk == CHOOSE jk \in (1..Len(msg)) \X (1..Len(msg)) : PatternAt(msg, i, jk[1], jk[2])
    IN IntOf(SubSeq(msg, jk[1], jk[2]))

ReflectionRaised(p) ==
    /\ Finished(p)
    /\ vc[p].contract_class # NoneV
    /\ vc[p].contract_class[1].reflect.tag = "raise"

\* C24: when get_schema raises a TypeError, validate_contract returns
\* ok=false with exactly one error, of code E106, which has line = N if and
\* only if the error text contains the pattern 'line': N and otherwise has
\* no line field; any other exception from reflection gives exactly one
\* E107 error without a line.
C24_ReflectionErrors ==
    \A p \in Procs :
        ReflectionRaised(p)
            => LET raised == vc[p].contract_class[1].reflect
               IN /\ outcome[p].tag = "return"
                  /\ ~outcome[p].val.ok
                  /\ Len(outcome[p].val.errors) = 1
                  /\ LET error == outcome[p].val.errors[1]
                     IN IF raised.exc = "TypeError"
                        THEN /\ error.code = "E106"
                             /\ "line" \in DOMAIN error <=> HasPattern(raised.msg)
                             /\ "line" \in DOMAIN error
                                    => error.line = PatternLine(raised.msg)
                        ELSE /\ error.code = "E107"
                             /\ "line" \notin DOMAIN error

\* A TypeError whose text has the pattern twice, the first with two digits.
C24_Witness ==
    \E p \in Procs :
        /\ ReflectionRaised(p)
        /\ vc[p].contract_class[1].reflect.msg = MsgTwoLines
        /\ outcome[p].val.errors[1].line = 12

(***************************************************************************)
(* Claims about the mocked host bindings (SpecSandbox).                    *)
(***************************************************************************)
\* C25: setup_wasi_mocks is idempotent: after one call and after any
\* number of repeated calls the _genlayer_wasi binding is registered with
\* storage_read and storage_write returning None, get_balance,
\* get_self_balance and gl_call returning 0, and GENERATING_DOCS is "true".
C25_MocksIdempotent ==
    \A p \in Procs :
        /\ (Validating(p) /\ SandboxSet(p)) => sys[p].wasi # NoneV
        /\ sys[p].wasi # NoneV
               => /\ sys[p].wasi[1].storage_read = "None"
                  /\ sys[p].wasi[1].storage_write = "None"
                  /\ sys[p].wasi[1].get_balance = 0
                  /\ sys[p].wasi[1].get_self_balance = 0
                  /\ sys[p].wasi[1].gl_call = 0
                  /\ sys[p].generating_docs = Some("true")

\* setup_wasi_mocks has run again in a process where it had run before.
C25_Witness ==
    \E p \in Procs :
        /\ Validating(p) /\ SandboxSet(p)
        /\ Len(sys[p].path) > Len(vc[p].sdk_paths)
        /\ sys[p].wasi # NoneV

(***************************************************************************)
(* Claims about find_latest_runner and hash_to_tar_path together           *)
(* (SpecPure).                                                             *)
(***************************************************************************)
\* C27: for every bundle and runner type t, if find_latest_runner(bundle,
\* t) returns a hash h, then hash_to_tar_path(t, h) is the name of a member
\* of the bundle, namely the member h was derived from, so extract_runner
\* locates it; find_latest_runner never raises on a bundle that has members
\* under runners/t/.
C27_LatestRunnerRoundTrip ==
    (call.fn = "find_latest_runner" /\ ret # Pending)
        => /\ ret.tag # "raise"
           /\ ret.tag = "return"
                  => LET t == call.runner_type
                         under == {i \in 1..Len(call.members) :
                                       /\ StartsWith(call.members[i], RunnersSlash \o t \o Slash)
                                       /\ EndsWith(call.members[i], DotTar)}
                     IN /\ under # {}
                        /\ HashToTarPath(t, ret.val)
                               = call.members[CHOOSE i \in under : \A j \in under : j <= i]

\* The hash of a three-character member, found among other members.
C27_Witness ==
    /\ call.fn = "find_latest_runner"
    /\ Len(call.members) = MaxMembers
    /\ ret = Return(<<"a", "a", "0">>)
    /\ call.members[Len(call.members)] = RunnersSlash \o PyGenlayer

(***************************************************************************)
(* Claims about the resolution of the py-genlayer runner (Spec).           *)
(***************************************************************************)
\* The .tar members of the bundle of the call under runners/py-genlayer/,
\* in archive order.
GenlayerRunners(p) ==
    LET names == MemberNamesOf(files[vc[p].tarball_path])
    IN SelectSeq(names, LAMBDA name : /\ StartsWith(name, RunnersSlash \o PyGenlayer \o Slash)
                                      /\ EndsWith(name, DotTar))

\* extract_sdk_paths has raised RuntimeError before any extract_runner call.
ResolutionFailed(p) ==
    /\ Validating(p)
    /\ vc[p].tarball_path # NoPath
    /\ vc[p].exc = "RuntimeError"
    /\ er[p] = NoEr

\* C26: extract_sdk_paths resolves py-genlayer with the hash the header
\* declares when the header names py-genlayer, and otherwise with the hash
\* find_latest_runner returns; a missing header alone never makes
\* validation fail, and resolution fails only when the bundle has no
\* py-genlayer runner at all.
C26_GenlayerResolution ==
    \A p \in Procs :
        /\ (Validating(p) /\ er[p].cont = "xs_manifest")
               => /\ er[p].runner_type = PyGenlayer
                  /\ er[p].hash_val
                         = IF PyGenlayer \in DOMAIN vc[p].dependencies
                           THEN vc[p].dependencies[PyGenlayer]
                           ELSE HashOfMember(GenlayerRunners(p)[Len(GenlayerRunners(p))],
                                             PyGenlayer)
        /\ ResolutionFailed(p)
               => /\ PyGenlayer \notin DOMAIN vc[p].dependencies
                  /\ GenlayerRunners(p) = <<>>

\* A contract without a header has validated with the latest runner.
C26_Witness ==
    \E p \in Procs :
        /\ Finished(p)
        /\ vc[p].dependencies = EmptyDeps
        /\ er[p].tarball_path = vc[p].tarball_path
        /\ vc[p].runner_path = RunnerPath(vc[p].tarball_path, PyGenlayer, HashG)
        /\ outcome[p].tag = "return" /\ outcome[p].val.ok

(***************************************************************************)
(* The result of lint_contract.  The three checks are told apart by the    *)
(* codes of their warnings, and whether a check has something to report is *)
(* read off the way the file was built.                                    *)
(***************************************************************************)
LintReturned == call.fn = "lint_contract" /\ ret.tag = "return"

SafetyCodes == {"W001", "W002", "W003"}
StructureCodes == {"W010", "W011"}
SyntaxCodes == {"E001"}
CheckGroups == {SafetyCodes, StructureCodes, SyntaxCodes}

Warned(r, group) == \E i \in 1..Len(r.warnings) : r.warnings[i].code \in group

Unwarned(r) == Cardinality({g \in CheckGroups : ~Warned(r, g)})

\* A source that does not parse gives the safety check nothing to visit.
SourceWarns(file, group) ==
    CASE group = SyntaxCodes -> file.syntax # NoneV
      [] group = StructureCodes -> file.header \in {"other", "bare", "none"}
      [] OTHER -> /\ file.syntax = NoneV
                  /\ file.code \in {"os", "random", "clock", "float", "several"}

\* C28, as stated: every result of lint_contract has ok exactly when it has
\* no warning and, for an existing file, exactly when checks_passed is 3;
\* checks_passed is in 0..3 and is the number of the three checks that
\* contributed no warning; and each of the three checks has run, so that a
\* check's warning is in the result exactly when the source gives it one.
C28_LintResultInvariants ==
    LintReturned =>
        LET r == ret.val
        IN /\ r.ok <=> r.warnings = <<>>
           /\ call.exists => (r.ok <=> r.checks_passed = 3)
           /\ r.checks_passed \in 0..3
           /\ r.checks_passed = Unwarned(r)
           /\ \A g \in CheckGroups : Warned(r, g) <=> SourceWarns(call, g)

\* C28, amended: the count and the three checks are those of an existing
\* file; for a missing file no check runs and the result is not ok, with
\* checks_passed 0 and the single warning E100.
C28_ExistingFileInvariants ==
    LintReturned =>
        LET r == ret.val
        IN /\ r.ok <=> r.warnings = <<>>
           /\ r.checks_passed \in 0..3
           /\ call.exists =>
                /\ r.ok <=> r.checks_passed = 3
                /\ r.checks_passed = Unwarned(r)
                /\ \A g \in CheckGroups : Warned(r, g) <=> SourceWarns(call, g)
           /\ ~call.exists =>
                /\ ~r.ok
                /\ r.checks_passed = 0
                /\ Len(r.warnings) = 1
                /\ r.warnings[1].code = "E100"

\* An existing file on which the safety and the structure check both warn.
C28_Witness ==
    /\ LintReturned
    /\ call.exists
    /\ Warned(ret.val, SafetyCodes)
    /\ Warned(ret.val, StructureCodes)
    /\ ret.val.checks_passed = 1

(***************************************************************************)
(* The linter and the validator on the header of one source.               *)
(***************************************************************************)
BothReturned == ret.tag = "return" /\ outcome["p1"].tag = "return"

StructureAccepts ==
    \A i \in 1..Len(outcome["p1"].val) : outcome["p1"].val[i].code \notin {"W010", "W011"}

\* C29: check_structure reports neither W010 nor W011 on a source exactly
\* when parse_contract_header, on the same source, returns a mapping that
\* contains py-genlayer.
C29_HeaderAgreement ==
    BothReturned => (StructureAccepts <=> <<"py-genlayer">> \in DOMAIN ret.val)

(***************************************************************************)
(* The exit status of a legacy invocation.                                 *)
(***************************************************************************)
LegacyExited(p) ==
    pc[p] = "exited" /\ op[p].name = "legacy" /\ ~op[p].args.usage_error
        /\ op[p].args.contract # NoneV

\* The lint result before any filter, read off the way the file was built.
UnfilteredOk(file) == \A g \in CheckGroups : ~SourceWarns(file, g)

\* C30: a legacy invocation, one whose first argument is neither a
\* subcommand nor an option, exits with status 0 exactly when the
\* unfiltered lint result of the file is ok (a file that does not exist has
\* none, and the status is 1), whatever --severity and --exclude-rule are.
C30_LegacyExitStatus ==
    \A p \in Procs :
        /\ pc[p] \in {"legacy_args", "legacy_lint"} =>
              /\ op[p].argv[2] \notin SUBCOMMANDS
              /\ op[p].argv[2][1] # "-"
        /\ LegacyExited(p) =>
              LET file == LegacyFiles[op[p].args.contract[1]]
              IN /\ op[p].linted = file.exists
                 /\ op[p].status = Some(0) <=> (file.exists /\ UnfilteredOk(file))
                 /\ op[p].status # Some(0) => op[p].status = Some(1)

\* A run that prints no warning after filtering and exits with status 1.
C30_Witness ==
    /\ LegacyExited("p1")
    /\ op["p1"].linted
    /\ op["p1"].printed = <<>>
    /\ op["p1"].args.severity = Some("error")
    /\ op["p1"].status = Some(1)

====
